---- MODULE Spec2Model ----
(***************************************************************************)
(* Automation/command engine of the Discord onboarding bot                 *)
(* (core/services.py): guild settings, cached roles and channels, invite   *)
(* rules, applications, the automation interpreter and the built-in        *)
(* commands.  A handler call is one atomic step; its returned action list  *)
(* is kept in `last` so that properties can speak about results.           *)
(*                                                                         *)
(* Abstractions.  Discord ids are small positive integers and NULL (0)     *)
(* stands for Python None / SQL NULL (both falsy, like 0).  A string that  *)
(* the code splits on ',' is held as the sequence of its tokens.  Rendered *)
(* text is held as [tpl, message]: the template that produced it and the   *)
(* message that was substituted into it.  Application.user_name and the    *)
(* inviter fields are written once and never read by a decision of the     *)
(* engine; they are left out of the row.                                   *)
(***************************************************************************)
EXTENDS Integers, Sequences, FiniteSets, TLC

VARIABLES
    gs,         \* GuildSettings rows: guild_id -> settings
    roles,      \* DiscordRole cache rows
    channels,   \* DiscordChannel cache rows
    rules,      \* InviteRule rows with their role sets
    apps,       \* Application rows: id -> row (a deleted row leaves the domain)
    nextId,     \* next Application primary key (ids are never reused)
    autos,      \* Automation rows with their Action children (admin-configured)
    tokens,     \* AccessToken rows that have not expired
    last,       \* the last handler call: operation, event, returned actions
    inflight    \* per worker: the reaction call it is in the middle of, if any

vars == <<gs, roles, channels, rules, apps, nextId, autos, tokens, last, inflight>>

-----------------------------------------------------------------------------
(* Bounds and value domains *)

MaxApps == 2            \* Application rows ever created in one behaviour

NULL == 0

GuildIds == {1, 2}              \* guilds that have a GuildSettings row
EventGuildIds == {1, 2, 3}      \* guild 3 has no GuildSettings row
UserIds == {1, 2}
MemberRoleIds == {3, 4}         \* roles an applicant can be given
InviteCodes == {"abc", "zzz"}   \* codes seen on joins ("zzz" never has a rule)

Range(s) == {s[i] : i \in 1..Len(s)}

RECURSIVE SortedSeq(_)
\* ascending sequence of a finite set of integers (ORDER BY on an integer column)
SortedSeq(S) ==
    IF S = {} THEN <<>>
    ELSE LET m == CHOOSE x \in S : \A y \in S : x <= y
         IN <<m>> \o SortedSeq(S \ {m})

-----------------------------------------------------------------------------
(* Action dicts returned to the bot *)

NoContent == [tpl |-> "", message |-> ""]
NoEmbed == [color |-> NULL, fields |-> <<>>]

Effect(t) ==
    [type |-> t, guild_id |-> NULL, user_id |-> NULL, role_id |-> NULL,
     channel_id |-> NULL, message_id |-> NULL, application_id |-> NULL,
     count |-> NULL, content |-> NoContent, embed |-> NoEmbed, items |-> {}]

Rendered(tpl, message) == [tpl |-> tpl, message |-> message]

Reply(content) == [Effect("reply") EXCEPT !.content = content]

-----------------------------------------------------------------------------
(* Rows *)

Now == 1        \* timezone.now(): some non-null timestamp

EmptyResponses == <<>>      \* the empty dict {}

NewApplication(id, g, user, code) ==
    [id |-> id, guild |-> g, user_id |-> user, invite_code |-> code,
     status |-> "PENDING", responses |-> EmptyResponses, message_id |-> NULL,
     reviewed_by |-> NULL, reviewed_by_name |-> "", reviewed_at |-> NULL]

\* Model.save(): UPDATE by primary key, INSERT when no row has that key
SaveRow(rows, row) ==
    [i \in DOMAIN rows \cup {row.id} |-> IF i = row.id THEN row ELSE rows[i]]

\* Model.delete(): DELETE by primary key
DeleteRow(rows, id) == [i \in DOMAIN rows \ {id} |-> rows[i]]

\* Application.objects.filter(guild=gs, user_id=u, status='PENDING')
PendingOf(rows, g, u) ==
    {i \in DOMAIN rows : rows[i].guild = g /\ rows[i].user_id = u /\ rows[i].status = "PENDING"}

\* .order_by('-created_at').first(): the newest row, ids grow with creation time
Newest(ids) == CHOOSE i \in ids : \A j \in ids : j <= i

-----------------------------------------------------------------------------
(* Form configuration (FormField / Dropdown rows; admin-configured, read-only *)
(* for the engine).  Guild 1 asks for roles (twice), channels and a text;     *)
(* guild 2 has no form.                                                      *)

Num(n) == [int |-> TRUE, val |-> n]       \* a token int() accepts
NaN == [int |-> FALSE, val |-> NULL]      \* a token int() rejects (ValueError)

FormFields ==
    { [id |-> 1, guild |-> 1, field_type |-> "dropdown", has_dropdown |-> TRUE,
       source_type |-> "ROLES", multiselect |-> TRUE, options |-> {3, 4}, required |-> TRUE],
      [id |-> 2, guild |-> 1, field_type |-> "dropdown", has_dropdown |-> TRUE,
       source_type |-> "CHANNELS", multiselect |-> TRUE, options |-> {7}, required |-> FALSE],
      [id |-> 3, guild |-> 1, field_type |-> "dropdown", has_dropdown |-> TRUE,
       source_type |-> "ROLES", multiselect |-> FALSE, options |-> {4}, required |-> FALSE],
      [id |-> 4, guild |-> 1, field_type |-> "text", has_dropdown |-> FALSE,
       source_type |-> "", multiselect |-> FALSE, options |-> {}, required |-> FALSE] }

FieldsOf(g) == {f \in FormFields : f.guild = g}

FieldById(id) == CHOOSE f \in FormFields : f.id = id

\* the int values of one raw answer: split(','), strip, int(), ValueError skipped
IntTokens(raw) ==
    LET nums == SelectSeq(raw, LAMBDA t : t.int)
    IN [i \in 1..Len(nums) |-> nums[i].val]

RECURSIVE SelectionsOver(_, _, _)
SelectionsOver(fieldIds, responses, source) ==
    IF fieldIds = <<>> THEN <<>>
    ELSE LET f == FieldById(Head(fieldIds))
             raw == IF f.id \in DOMAIN responses THEN responses[f.id] ELSE <<>>
             here == IF f.has_dropdown /\ raw # <<>> /\ f.source_type = source
                     THEN IntTokens(raw) ELSE <<>>
         IN here \o SelectionsOver(Tail(fieldIds), responses, source)

extract_form_selections(g, application) ==
    LET ids == SortedSeq({f.id : f \in {x \in FieldsOf(g) : x.field_type = "dropdown"}})
    IN [role_ids |-> SelectionsOver(ids, application.responses, "ROLES"),
        channel_ids |-> SelectionsOver(ids, application.responses, "CHANNELS")]

-----------------------------------------------------------------------------
(* Invite rules *)

\* the lookup without the fallback to the 'default' rule
ResolveRuleExactOnly(ruleRows, g, code) ==
    {r \in ruleRows : r.guild = g /\ r.invite_code = code}

\* the lookup over the rules of every guild
ResolveRuleAnyGuild(ruleRows, g, code) ==
    LET exact == {r \in ruleRows : r.invite_code = code}
        dflt == {r \in ruleRows : r.invite_code = "default"}
    IN IF exact # {} THEN exact ELSE dflt

\* filter(guild, invite_code=code).first(), then the same for 'default'
ResolveRule(ruleRows, g, code) ==
    LET exact == {r \in ruleRows : r.guild = g /\ r.invite_code = code}
        dflt == {r \in ruleRows : r.guild = g /\ r.invite_code = "default"}
    IN IF exact # {} THEN exact ELSE dflt

\* rule.roles.all() as discord ids (row order is unspecified: ascending id here)
RuleRoleIds(ruleRows, g, code) ==
    LET found == ResolveRule(ruleRows, g, code)
    IN IF found = {} THEN <<>> ELSE SortedSeq((CHOOSE r \in found : TRUE).roles)

-----------------------------------------------------------------------------
(* Shared approve / reject *)

ColorGreen == 3066993
ColorRed == 15158332
ColorOrange == 16753920
ApproveCleanupCount == 50

AddRole(g, user, rid) ==
    [Effect("add_role") EXCEPT !.guild_id = g, !.user_id = user, !.role_id = rid]

RemoveRole(g, user, rid) ==
    [Effect("remove_role") EXCEPT !.guild_id = g, !.user_id = user, !.role_id = rid]

SetPermissions(cid, user) ==
    [Effect("set_permissions") EXCEPT !.channel_id = cid, !.user_id = user]

\* the tracked embed after a review: 'Actions' dropped, status fields appended
ReviewedEmbed(original, color, added) ==
    [color |-> color,
     fields |-> SelectSeq(original, LAMBDA name : name # "Actions") \o added]

\* the edit of the tracked message alone, its reactions left in place
EditOnly(g, msg_id, embed) ==
    << [Effect("edit_message") EXCEPT !.channel_id = gs[g].bounce_channel_id,
                                      !.message_id = msg_id, !.embed = embed] >>

EditTracked(g, msg_id, embed) ==
    << [Effect("edit_message") EXCEPT !.channel_id = gs[g].bounce_channel_id,
                                      !.message_id = msg_id, !.embed = embed],
       [Effect("clear_reactions") EXCEPT !.channel_id = gs[g].bounce_channel_id,
                                         !.message_id = msg_id] >>

RECURSIVE AddExtraRoles(_, _, _, _)
\* roles from @mentions: appended unless an add_role for that id is already there
AddExtraRoles(actions, g, user, extra) ==
    IF extra = <<>> THEN actions
    ELSE IF \E i \in 1..Len(actions) :
                actions[i].type = "add_role" /\ actions[i].role_id = Head(extra)
         THEN AddExtraRoles(actions, g, user, Tail(extra))
         ELSE AddExtraRoles(Append(actions, AddRole(g, user, Head(extra))), g, user, Tail(extra))

\* the add_role actions for form answers: those not among the rule's roles
FormRoleActions(g, user, role_ids, rule_role_ids) ==
    LET keep == SelectSeq(role_ids, LAMBDA rid : rid \notin rule_role_ids)
    IN [i \in 1..Len(keep) |-> AddRole(g, user, keep[i])]

approve_actions(g, application, admin, event, extra_role_ids, extra_channel_ids) ==
    LET user == application.user_id
        s == gs[g]
        removePending == IF s.pending_role_id # NULL
                         THEN <<RemoveRole(g, user, s.pending_role_id)>> ELSE <<>>
        ruleIds == RuleRoleIds(rules, g, application.invite_code)
        fromRule == [i \in 1..Len(ruleIds) |-> AddRole(g, user, ruleIds[i])]
        sel == IF application.responses # EmptyResponses
               THEN extract_form_selections(g, application)
               ELSE [role_ids |-> <<>>, channel_ids |-> <<>>]
        fromForm == FormRoleActions(g, user, sel.role_ids, Range(ruleIds))
        all_channel_ids == Range(sel.channel_ids) \cup Range(extra_channel_ids)
        chanSeq == SortedSeq(all_channel_ids)
        perms == [i \in 1..Len(chanSeq) |-> SetPermissions(chanSeq[i], user)]
        withExtra == AddExtraRoles(removePending \o fromRule \o fromForm \o perms,
                                   g, user, extra_role_ids)
        msg_id == IF event.message_id # NULL THEN event.message_id ELSE application.message_id
        edit == IF msg_id # NULL /\ s.bounce_channel_id # NULL
                THEN EditTracked(g, msg_id,
                        ReviewedEmbed(event.original_embed, ColorGreen, <<"Status", "Roles">>))
                ELSE <<>>
        dm == [Effect("send_dm") EXCEPT !.user_id = user,
                                        !.content = Rendered("APPROVE_DM", "")]
        cleanup == IF s.bounce_channel_id # NULL
                   THEN << [Effect("cleanup_channel") EXCEPT
                                !.channel_id = s.bounce_channel_id,
                                !.count = ApproveCleanupCount, !.guild_id = g] >>
                   ELSE <<>>
    IN withExtra \o edit \o <<dm>> \o cleanup

\* approve without application.delete()
approve_user_keeps_row(rows, g, application, admin, event, extra_role_ids, extra_channel_ids) ==
    [actions |-> approve_actions(g, application, admin, event, extra_role_ids, extra_channel_ids),
     apps |-> rows]

\* approve that does nothing when the row is no longer PENDING in the table
approve_user_if_pending(rows, g, application, admin, event, extra_role_ids, extra_channel_ids) ==
    IF ~(application.id \in DOMAIN rows /\ rows[application.id].status = "PENDING")
    THEN [actions |-> <<>>, apps |-> rows]
    ELSE [actions |-> approve_actions(g, application, admin, event, extra_role_ids, extra_channel_ids),
          apps |-> DeleteRow(rows, application.id)]

\* _approve_user: the actions, and the table after application.delete()
approve_user(rows, g, application, admin, event, extra_role_ids, extra_channel_ids) ==
    [actions |-> approve_actions(g, application, admin, event, extra_role_ids, extra_channel_ids),
     apps |-> DeleteRow(rows, application.id)]

reject_actions(g, application, admin, event, reason) ==
    LET user == application.user_id
        s == gs[g]
        removePending == IF s.pending_role_id # NULL
                         THEN <<RemoveRole(g, user, s.pending_role_id)>> ELSE <<>>
        msg_id == IF event.message_id # NULL THEN event.message_id ELSE application.message_id
        added == IF reason # "" /\ reason # "No reason provided"
                 THEN <<"Status", "Reason">> ELSE <<"Status">>
        edit == IF msg_id # NULL /\ s.bounce_channel_id # NULL
                THEN EditTracked(g, msg_id, ReviewedEmbed(event.original_embed, ColorRed, added))
                ELSE <<>>
        dm == [Effect("send_dm") EXCEPT !.user_id = user,
                                        !.content = Rendered("REJECT_DM", reason)]
        notice == IF s.pending_channel_id # NULL
                  THEN << [Effect("send_message") EXCEPT
                                !.channel_id = s.pending_channel_id,
                                !.content = Rendered("REJECT_PENDING", reason)] >>
                  ELSE <<>>
    IN removePending \o edit \o <<dm>> \o notice

\* the loaded instance with the review recorded on it
Reviewed(application, admin) ==
    [application EXCEPT !.status = "REJECTED", !.reviewed_by = admin.id,
                        !.reviewed_by_name = admin.name, !.reviewed_at = Now]

\* _reject_user: application.save() of the reviewed instance, then the actions
reject_user(rows, g, application, admin, event, reason) ==
    [actions |-> reject_actions(g, application, admin, event, reason),
     apps |-> SaveRow(rows, Reviewed(application, admin))]

-----------------------------------------------------------------------------
(* Generic automation engine *)

NoneStr == "<None>"     \* dict.get() of a key the event does not carry

\* An event as the engine reads it: member / invite / command / emoji may be absent.
EngineEvent(g, memberId, code, command, emoji) ==
    [guild_id |-> g, member_id |-> memberId, invite_code |-> code,
     command |-> command, emoji |-> emoji]

\* member.get('id') or event.get('user_id'): events of this model carry no user_id key
EventUserId(event) == event.member_id

\* invite.get('code', 'unknown')
EventInviteCode(event) ==
    IF event.invite_code = NoneStr THEN "unknown" ELSE event.invite_code

AbsentRef == [sym |-> "absent", id |-> NULL, name |-> ""]
BounceRef == [sym |-> "bounce", id |-> NULL, name |-> ""]
PendingRef == [sym |-> "pending", id |-> NULL, name |-> ""]
LiteralRef(n) == [sym |-> "id", id |-> n, name |-> ""]
NameRef(str) == [sym |-> "name", id |-> NULL, name |-> str]

\* an Action.config with no key set
NoConfig ==
    [channel |-> AbsentRef, template |-> "", content |-> "", track |-> FALSE,
     role_id |-> NULL, role |-> AbsentRef, from_rule |-> FALSE, from_form |-> FALSE,
     count |-> NULL]

\* c.get('channel', default)
ChannelOr(c, default) == IF c.channel.sym = "absent" THEN default ELSE c.channel

\* the resolution that sends 'pending' to the bounce channel as well
resolve_channel_to_bounce(g, ref) ==
    CASE ref.sym = "bounce" -> gs[g].bounce_channel_id
      [] ref.sym = "pending" -> gs[g].bounce_channel_id
      [] ref.sym = "id" -> ref.id
      [] OTHER -> NULL

resolve_channel(g, ref) ==
    CASE ref.sym = "bounce" -> gs[g].bounce_channel_id
      [] ref.sym = "pending" -> gs[g].pending_channel_id
      [] ref.sym = "id" -> ref.id
      [] OTHER -> NULL

Lower(str) ==
    CASE str = "Members" -> "members"
      [] str = "MEMBERS" -> "members"
      [] str = "VIP" -> "vip"
      [] str = "Vip" -> "vip"
      [] str = "BotAdmin" -> "botadmin"
      [] str = "Pending" -> "pending"
      [] str = "AUTO" -> "auto"
      [] str = "Auto" -> "auto"
      [] str = "APPROVAL" -> "approval"
      [] str = "Approval" -> "approval"
      [] str = "ON" -> "on"
      [] str = "OFF" -> "off"
      [] str = "FR" -> "fr"
      [] OTHER -> str

resolve_role_id(g, c) ==
    IF c.role_id # NULL THEN c.role_id
    ELSE CASE c.role.sym = "pending" -> gs[g].pending_role_id
           [] c.role.sym = "id" -> c.role.id
           [] c.role.sym = "name" ->
                LET hit == {r \in roles : r.guild = g /\ Lower(r.name) = Lower(c.role.name)}
                IN IF hit = {} THEN NULL
                   ELSE (CHOOSE r \in hit : \A q \in hit : r.discord_id <= q.discord_id).discord_id
           [] OTHER -> NULL

\* get_template(...).format(...) with the keywords _format_template passes:
\* the text, '' for an unknown name (fallback "{message}"), KeyError for a
\* default template with a placeholder that is not passed
TemplateOutcome(name) ==
    CASE name \in {"JOIN_LOG_AUTO", "JOIN_LOG_APPROVAL", "PENDING_CHANNEL_TOPIC",
                   "APPROVE_DM", "REJECT_DM", "COMMAND_SUCCESS"} -> "text"
      [] name \in {"APPROVAL_NOTIFICATION", "INSTALL_WELCOME", "HELP_MESSAGE",
                   "COMMAND_NOT_FOUND", "NO_PENDING_APP"} -> "KeyError"
      [] OTHER -> "empty"

format_template(name) ==
    IF TemplateOutcome(name) = "text" THEN Rendered(name, "") ELSE NoContent

\* the result of interpreting one Action
Done(actions, rows, nid) == [actions |-> actions, apps |-> rows, nextId |-> nid, raised |-> FALSE]
Raised(rows, nid) == [actions |-> <<>>, apps |-> rows, nextId |-> nid, raised |-> TRUE]

\* content of SEND_MESSAGE / SEND_DM / SET_TOPIC: the template when one is named
ConfiguredContent(c) ==
    IF c.template # "" THEN format_template(c.template)
    ELSE IF c.content # "" THEN Rendered("", c.content) ELSE NoContent

ContentRaises(c) == c.template # "" /\ TemplateOutcome(c.template) = "KeyError"

\* the embed built and returned without the Application row being created
build_application_embed_unsaved(rows, nid, g, event, channel_id, track) ==
    IF event.member_id = NULL THEN Raised(rows, nid)
    ELSE Done(<< [Effect("send_embed_tracked") EXCEPT
                    !.channel_id = channel_id, !.application_id = nid] >>, rows, nid)

build_application_embed(rows, nid, g, event, channel_id, track) ==
    IF event.member_id = NULL THEN Raised(rows, nid)      \* member['id']: KeyError
    ELSE
    LET app == NewApplication(nid, g, event.member_id, EventInviteCode(event))
        has_form == FieldsOf(g) # {}
        embed == [color |-> ColorOrange,
                  fields |-> IF has_form
                             THEN <<"User", "Invite", "Invited by", "Form", "Actions">>
                             ELSE <<"User", "Invite", "Invited by", "Actions">>]
        tracked == [Effect("send_embed_tracked") EXCEPT
                        !.channel_id = channel_id, !.embed = embed,
                        !.application_id = app.id]
        topic == IF has_form /\ gs[g].pending_channel_id # NULL
                 THEN << [Effect("set_topic") EXCEPT
                            !.channel_id = gs[g].pending_channel_id,
                            !.content = Rendered("PENDING_CHANNEL_TOPIC", "")] >>
                 ELSE <<>>
    IN Done(<<tracked>> \o topic, SaveRow(rows, app), nid + 1)

roles_from_invite_rule(g, event) ==
    LET user_id == EventUserId(event)
        ids == RuleRoleIds(rules, g, EventInviteCode(event))
    IN IF user_id = NULL THEN <<>>
       ELSE [i \in 1..Len(ids) |-> AddRole(g, user_id, ids[i])]

\* the newest PENDING application of the event's user, when it has responses
FormApplication(rows, g, event) ==
    LET user_id == EventUserId(event)
        mine == IF user_id = NULL THEN {} ELSE PendingOf(rows, g, user_id)
    IN IF mine = {} THEN {}
       ELSE IF rows[Newest(mine)].responses = EmptyResponses THEN {}
       ELSE {rows[Newest(mine)]}

roles_from_form(rows, g, event) ==
    LET found == FormApplication(rows, g, event)
    IN IF found = {} THEN <<>>
       ELSE LET ids == extract_form_selections(g, CHOOSE a \in found : TRUE).role_ids
            IN [i \in 1..Len(ids) |-> AddRole(g, EventUserId(event), ids[i])]

channel_perms_from_form(rows, g, event) ==
    LET found == FormApplication(rows, g, event)
    IN IF found = {} THEN <<>>
       ELSE LET ids == extract_form_selections(g, CHOOSE a \in found : TRUE).channel_ids
            IN [i \in 1..Len(ids) |-> SetPermissions(ids[i], EventUserId(event))]

DefaultCleanupCount == 10

process_action(rows, nid, action, g, event) ==
    LET c == action.config
        t == action.action_type
        user_id == EventUserId(event)
    IN
    CASE t = "SEND_MESSAGE" ->
            LET ch == resolve_channel(g, ChannelOr(c, BounceRef))
                content == ConfiguredContent(c)
            IN IF ContentRaises(c) THEN Raised(rows, nid)
               ELSE IF ch # NULL /\ content # NoContent
               THEN Done(<< [Effect("send_message") EXCEPT !.channel_id = ch,
                                                          !.content = content] >>, rows, nid)
               ELSE Done(<<>>, rows, nid)
      [] t = "SEND_DM" ->
            LET content == ConfiguredContent(c)
            IN IF ContentRaises(c) THEN Raised(rows, nid)
               ELSE IF user_id # NULL /\ content # NoContent
               THEN Done(<< [Effect("send_dm") EXCEPT !.user_id = user_id,
                                                     !.content = content] >>, rows, nid)
               ELSE Done(<<>>, rows, nid)
      [] t = "SEND_EMBED" ->
            LET ch == resolve_channel(g, ChannelOr(c, BounceRef))
            IN IF ch = NULL THEN Done(<<>>, rows, nid)
               ELSE IF c.template = "application"
               THEN build_application_embed(rows, nid, g, event, ch, c.track)
               ELSE IF c.template # ""
               THEN IF TemplateOutcome(c.template) = "KeyError" THEN Raised(rows, nid)
                    ELSE Done(<< [Effect("send_embed") EXCEPT
                                    !.channel_id = ch,
                                    !.content = format_template(c.template)] >>, rows, nid)
               ELSE Done(<<>>, rows, nid)
      [] t = "ADD_ROLE" ->
            IF c.from_rule THEN Done(roles_from_invite_rule(g, event), rows, nid)
            ELSE IF c.from_form THEN Done(roles_from_form(rows, g, event), rows, nid)
            ELSE LET role_id == resolve_role_id(g, c)
                 IN IF role_id # NULL /\ user_id # NULL
                    THEN Done(<<AddRole(g, user_id, role_id)>>, rows, nid)
                    ELSE Done(<<>>, rows, nid)
      [] t = "REMOVE_ROLE" ->
            LET role_id == resolve_role_id(g, c)
            IN IF role_id # NULL /\ user_id # NULL
               THEN Done(<<RemoveRole(g, user_id, role_id)>>, rows, nid)
               ELSE Done(<<>>, rows, nid)
      [] t = "SET_TOPIC" ->
            LET ch == resolve_channel(g, ChannelOr(c, PendingRef))
            IN IF ContentRaises(c) THEN Raised(rows, nid)
               ELSE IF ch # NULL
               THEN Done(<< [Effect("set_topic") EXCEPT !.channel_id = ch,
                                !.content = ConfiguredContent(c)] >>, rows, nid)
               ELSE Done(<<>>, rows, nid)
      [] t = "SET_PERMS" ->
            IF c.from_form THEN Done(channel_perms_from_form(rows, g, event), rows, nid)
            ELSE LET ch == resolve_channel(g, c.channel)
                 IN IF ch # NULL /\ user_id # NULL
                    THEN Done(<<SetPermissions(ch, user_id)>>, rows, nid)
                    ELSE Done(<<>>, rows, nid)
      [] t = "CLEANUP" ->
            LET ch == resolve_channel(g, ChannelOr(c, BounceRef))
            IN IF ch # NULL
               THEN Done(<< [Effect("cleanup_channel") EXCEPT
                                !.channel_id = ch, !.guild_id = g,
                                !.count = IF c.count = NULL THEN DefaultCleanupCount
                                          ELSE c.count] >>, rows, nid)
               ELSE Done(<<>>, rows, nid)
      [] OTHER -> Done(<<>>, rows, nid)

\* the filter without the invite_code key
trigger_matches_any_invite(config, event, mode) ==
    \A key \in DOMAIN config :
        /\ key = "mode" => mode = config[key]
        /\ key = "name" => event.command = config[key]
        /\ key = "emoji" => event.emoji = config[key]

\* the filter without the mode key
trigger_matches_any_mode(config, event, mode) ==
    \A key \in DOMAIN config :
        /\ key = "invite_code" => event.invite_code = config[key]
        /\ key = "name" => event.command = config[key]
        /\ key = "emoji" => event.emoji = config[key]

trigger_matches(config, event, mode) ==
    \A key \in DOMAIN config :
        /\ key = "mode" => mode = config[key]
        /\ key = "invite_code" => event.invite_code = config[key]
        /\ key = "name" => event.command = config[key]
        /\ key = "emoji" => event.emoji = config[key]

\* the enabled actions of an automation, largest order first
EnabledActionsDescending(auto) ==
    LET on == {a \in auto.actions : a.enabled}
        orders == SortedSeq({a.order : a \in on})
    IN [i \in 1..Len(orders) |-> CHOOSE a \in on : a.order = orders[Len(orders) + 1 - i]]

\* auto.actions.filter(enabled=True).order_by('order')
EnabledActions(auto) ==
    LET on == {a \in auto.actions : a.enabled}
        orders == SortedSeq({a.order : a \in on})
    IN [i \in 1..Len(orders) |-> CHOOSE a \in on : a.order = orders[i]]

RECURSIVE Flatten(_)
Flatten(seqs) == IF seqs = <<>> THEN <<>> ELSE Head(seqs) \o Flatten(Tail(seqs))

\* the automations of a guild and trigger, disabled ones included
AllAutomations(g, trigger) ==
    LET on == {a \in autos : a.guild = g /\ a.trigger = trigger}
        names == SortedSeq({a.name : a \in on})
    IN [i \in 1..Len(names) |-> CHOOSE a \in on : a.name = names[i]]

\* Automation.objects.filter(guild, trigger, enabled=True), Meta.ordering = ['name']
EnabledAutomations(g, trigger) ==
    LET on == {a \in autos : a.guild = g /\ a.trigger = trigger /\ a.enabled}
        names == SortedSeq({a.name : a \in on})
    IN [i \in 1..Len(names) |-> CHOOSE a \in on : a.name = names[i]]

RECURSIVE RunActions(_, _, _, _, _)
\* results.extend(_process_action(...)) over the actions in order; an exception
\* leaves the rows written so far and returns nothing
RunActions(acts, rows, nid, g, event) ==
    IF acts = <<>> THEN Done(<<>>, rows, nid)
    ELSE LET r == process_action(rows, nid, Head(acts), g, event)
         IN IF r.raised THEN r
            ELSE LET rest == RunActions(Tail(acts), r.apps, r.nextId, g, event)
                 IN IF rest.raised THEN rest
                    ELSE Done(r.actions \o rest.actions, rest.apps, rest.nextId)

process_event(trigger_type, event) ==
    IF event.guild_id \notin DOMAIN gs THEN Done(<<>>, apps, nextId)
    ELSE LET g == event.guild_id
             matching == SelectSeq(EnabledAutomations(g, trigger_type),
                            LAMBDA a : trigger_matches(a.trigger_config, event, gs[g].mode))
             acts == Flatten([i \in 1..Len(matching) |-> EnabledActions(matching[i])])
         IN RunActions(acts, apps, nextId, g, event)

-----------------------------------------------------------------------------
(* What a handler leaves behind: the tables it may write, the actions it    *)
(* returns, the _CmdError it raised ("" for none) and whether another       *)
(* exception escaped.                                                       *)

Tables ==
    [gs |-> gs, roles |-> roles, channels |-> channels, rules |-> rules,
     apps |-> apps, nextId |-> nextId, tokens |-> tokens]

Returned(actions, st) == [st |-> st, actions |-> actions, err |-> "", raised |-> FALSE]
CmdError(message, st) == [st |-> st, actions |-> <<>>, err |-> message, raised |-> FALSE]
Escaped(st) == [st |-> st, actions |-> <<>>, err |-> "", raised |-> TRUE]

\* a Done/Raised result of the automation engine as a handler outcome
FromEngine(r) ==
    LET st == [Tables EXCEPT !.apps = r.apps, !.nextId = r.nextId]
    IN IF r.raised THEN Escaped(st) ELSE Returned(r.actions, st)

-----------------------------------------------------------------------------
(* Event entry points *)

handle_member_join(event) == FromEngine(process_event("MEMBER_JOIN", event))

\* the update without the guild filter
CancelPendingAnyGuild(rows, guild_id, user_id) ==
    [i \in DOMAIN rows |->
        IF rows[i].user_id = user_id /\ rows[i].status = "PENDING"
        THEN [rows[i] EXCEPT !.status = "REJECTED"]
        ELSE rows[i]]

\* filter(guild__guild_id, user_id, status='PENDING').update(status='REJECTED')
CancelPending(rows, guild_id, user_id) ==
    [i \in DOMAIN rows |->
        IF rows[i].guild = guild_id /\ rows[i].user_id = user_id /\ rows[i].status = "PENDING"
        THEN [rows[i] EXCEPT !.status = "REJECTED"]
        ELSE rows[i]]

handle_member_remove(event) ==
    Returned(<<>>, [Tables EXCEPT !.apps = CancelPending(apps, event.guild_id, event.user_id)])

\* the lookup without the status filter
AnyById(rows, app_id) == {i \in DOMAIN rows : i = app_id}

\* Application.objects.get(id=app_id, status='PENDING')
PendingById(rows, app_id) ==
    {i \in DOMAIN rows : i = app_id /\ rows[i].status = "PENDING"}

\* "approve_mark" is the check-mark emoji, "reject_mark" the cross-mark emoji
handle_reaction(event) ==
    IF event.emoji \notin {"approve_mark", "reject_mark"} THEN Returned(<<>>, Tables)
    ELSE IF event.application_id = NULL THEN Returned(<<>>, Tables)
    ELSE IF PendingById(apps, event.application_id) = {} THEN Returned(<<>>, Tables)
    ELSE IF event.guild_id \notin DOMAIN gs THEN Returned(<<>>, Tables)
    ELSE LET application == apps[event.application_id]
             g == event.guild_id
             r == IF event.emoji = "approve_mark"
                  THEN approve_user(apps, g, application, event.admin, event, <<>>, <<>>)
                  ELSE reject_user(apps, g, application, event.admin, event,
                                   "Rejected via reaction")
         IN Returned(r.actions, [Tables EXCEPT !.apps = r.apps])

-----------------------------------------------------------------------------
(* Built-in commands *)

\* a gate that lets everybody through
EverybodyIsAdmin(g, event) == TRUE

\* _require_admin passes: the guild's admin role is one of the author's roles
IsAdmin(g, event) == gs[g].bot_admin_role_id \in event.author.role_ids

\* ' '.join(words): the text of the words (one word, or a longer text)
JoinWords(words) ==
    IF words = <<>> THEN "" ELSE IF Len(words) = 1 THEN words[1] ELSE "several words"

CommandSuccess(message) == Reply(Rendered("COMMAND_SUCCESS", message))

cmd_help(g, event) == Returned(<<Reply(Rendered("HELP_MESSAGE", ""))>>, Tables)

\* str.split(','), each name stripped
SplitNames(str) ==
    CASE str = "Members,VIP" -> <<"Members", "VIP">>
      [] str = "members,Nope" -> <<"members", "Nope">>
      [] str = "VIP,VIP" -> <<"VIP", "VIP">>
      [] OTHER -> <<str>>

\* {r['name'].lower(): r for r in guild_roles}[name.lower()]: the last listed
\* role with that lowered name; the empty set when there is none
GuildRoleNamed(guild_roles, name) ==
    LET hits == {i \in 1..Len(guild_roles) : Lower(guild_roles[i].name) = Lower(name)}
    IN IF hits = {} THEN {} ELSE {guild_roles[Newest(hits)]}

\* DiscordRole.objects.get_or_create(discord_id, guild, defaults={'name': ...})
GetOrCreateRole(roleRows, g, r) ==
    IF \E x \in roleRows : x.guild = g /\ x.discord_id = r.id THEN roleRows
    ELSE roleRows \cup {[guild |-> g, discord_id |-> r.id, name |-> r.name]}

RECURSIVE CollectRoles(_, _, _, _, _)
\* the loop over role names: the ids collected, the cache rows written, and the
\* name that was not found ("" when all were found)
CollectRoles(names, guild_roles, g, roleRows, ids) ==
    IF names = <<>> THEN [missing |-> "", roles |-> roleRows, ids |-> ids]
    ELSE LET found == GuildRoleNamed(guild_roles, Head(names))
         IN IF found = {} THEN [missing |-> Head(names), roles |-> roleRows, ids |-> ids]
            ELSE LET r == CHOOSE x \in found : TRUE
                 IN CollectRoles(Tail(names), guild_roles, g,
                                 GetOrCreateRole(roleRows, g, r), ids \cup {r.id})

\* InviteRule get_or_create(guild, invite_code) followed by rule.roles.set(ids)
SetRule(ruleRows, g, code, ids) ==
    {r \in ruleRows : ~(r.guild = g /\ r.invite_code = code)}
        \cup {[guild |-> g, invite_code |-> code, roles |-> ids]}

\* addrule that gets or creates the rule first and sets the roles found so
\* far before it reports a name that was not found
cmd_addrule_eager(g, event) ==
    IF ~IsAdmin(g, event) THEN CmdError("ADMIN_REQUIRED", Tables)
    ELSE IF Len(event.args) < 2 THEN CmdError("Usage", Tables)
    ELSE LET got == CollectRoles(SplitNames(event.args[2]), event.guild_roles, g, roles, {})
             st == [Tables EXCEPT !.roles = got.roles,
                                  !.rules = SetRule(rules, g, event.args[1], got.ids)]
         IN IF got.missing # "" THEN CmdError("Role not found", st)
            ELSE Returned(<<CommandSuccess("Invite rule created")>>, st)

cmd_addrule(g, event) ==
    IF ~IsAdmin(g, event) THEN CmdError("ADMIN_REQUIRED", Tables)
    ELSE IF Len(event.args) < 2 THEN CmdError("Usage", Tables)
    ELSE LET got == CollectRoles(SplitNames(event.args[2]), event.guild_roles, g, roles, {})
             st == [Tables EXCEPT !.roles = got.roles]
         IN IF got.missing # "" THEN CmdError("Role not found", st)
            ELSE Returned(<<CommandSuccess("Invite rule created")>>,
                          [st EXCEPT !.rules = SetRule(rules, g, event.args[1], got.ids)])

\* delrule that deletes every rule of the guild
cmd_delrule_all(g, event) ==
    IF ~IsAdmin(g, event) THEN CmdError("ADMIN_REQUIRED", Tables)
    ELSE IF Len(event.args) < 1 THEN CmdError("Usage", Tables)
    ELSE LET found == {r \in rules : r.guild = g /\ r.invite_code = event.args[1]}
         IN IF found = {} THEN CmdError("Rule not found", Tables)
            ELSE Returned(<<CommandSuccess("Invite rule deleted")>>,
                          [Tables EXCEPT !.rules = {r \in rules : r.guild # g}])

cmd_delrule(g, event) ==
    IF ~IsAdmin(g, event) THEN CmdError("ADMIN_REQUIRED", Tables)
    ELSE IF Len(event.args) < 1 THEN CmdError("Usage", Tables)
    ELSE LET found == {r \in rules : r.guild = g /\ r.invite_code = event.args[1]}
         IN IF found = {} THEN CmdError("Rule not found", Tables)
            ELSE Returned(<<CommandSuccess("Invite rule deleted")>>,
                          [Tables EXCEPT !.rules = rules \ found])

\* the role names shown for a rule: the cache names of its role ids
RuleListing(g) ==
    {[code |-> r.invite_code, roles |-> r.roles] : r \in {x \in rules : x.guild = g}}

cmd_listrules(g, event) ==
    IF RuleListing(g) = {} THEN Returned(<<Reply(Rendered("LISTRULES_EMPTY", ""))>>, Tables)
    ELSE Returned(<< [Effect("send_embed") EXCEPT !.channel_id = event.channel_id,
                                                  !.items = RuleListing(g)] >>, Tables)

\* the argument as typed, without upper-casing
UpperAsTyped(str) == str

Upper(str) ==
    CASE str = "auto" -> "AUTO"
      [] str = "Auto" -> "AUTO"
      [] str = "approval" -> "APPROVAL"
      [] str = "Approval" -> "APPROVAL"
      [] OTHER -> str

\* setmode that saves the mode before it checks the caller
cmd_setmode_checks_late(g, event) ==
    IF Len(event.args) < 1 THEN CmdError("Usage", Tables)
    ELSE LET mode == Upper(event.args[1])
         IN IF mode \notin {"AUTO", "APPROVAL"} THEN CmdError("Mode must be AUTO or APPROVAL", Tables)
            ELSE IF ~IsAdmin(g, event)
            THEN CmdError("ADMIN_REQUIRED", [Tables EXCEPT !.gs[g].mode = mode])
            ELSE Returned(<<CommandSuccess("Server mode changed")>>,
                          [Tables EXCEPT !.gs[g].mode = mode])

cmd_setmode(g, event) ==
    IF ~IsAdmin(g, event) THEN CmdError("ADMIN_REQUIRED", Tables)
    ELSE IF Len(event.args) < 1 THEN CmdError("Usage", Tables)
    ELSE LET mode == Upper(event.args[1])
         IN IF mode \notin {"AUTO", "APPROVAL"} THEN CmdError("Mode must be AUTO or APPROVAL", Tables)
            ELSE Returned(
                    (IF mode = "APPROVAL"
                     THEN <<[Effect("ensure_resources") EXCEPT !.guild_id = g]>> ELSE <<>>)
                        \o <<CommandSuccess("Server mode changed")>>,
                    [Tables EXCEPT !.gs[g].mode = mode])

cmd_listfields(g, event) ==
    IF FieldsOf(g) = {} THEN Returned(<<Reply(Rendered("LISTFIELDS_EMPTY", ""))>>, Tables)
    ELSE Returned(<< [Effect("send_embed") EXCEPT !.channel_id = event.channel_id] >>, Tables)

\* create(discord_id, guild, name) for every listed row, whatever is cached
CreateAll(rows, g, listed) ==
    rows \cup {[guild |-> g, discord_id |-> listed[i].id, name |-> listed[i].name]
               : i \in 1..Len(listed)}

\* update_or_create(discord_id, guild, defaults={'name': ...}) over the listed rows
UpsertAll(rows, g, listed) ==
    {x \in rows : ~(x.guild = g /\ \E i \in 1..Len(listed) : listed[i].id = x.discord_id)}
        \cup {[guild |-> g, discord_id |-> listed[i].id,
               name |-> listed[Newest({j \in 1..Len(listed) : listed[j].id = listed[i].id})].name]
              : i \in 1..Len(listed)}

RECURSIVE CreateMissing(_, _, _, _, _)
\* reload in APPROVAL mode: a PENDING row for each listed member that is not a
\* bot and had no application of the guild when the command started
CreateMissing(members, existing, g, rows, nid) ==
    IF members = <<>> THEN [apps |-> rows, nextId |-> nid]
    ELSE IF Head(members).bot \/ Head(members).id \in existing
         THEN CreateMissing(Tail(members), existing, g, rows, nid)
         ELSE CreateMissing(Tail(members), existing, g,
                            SaveRow(rows, NewApplication(nid, g, Head(members).id, "reload")),
                            nid + 1)

cmd_reload(g, event) ==
    IF ~IsAdmin(g, event) THEN CmdError("ADMIN_REQUIRED", Tables)
    ELSE LET existing == {apps[i].user_id : i \in {j \in DOMAIN apps : apps[j].guild = g}}
             made == IF gs[g].mode = "APPROVAL"
                     THEN CreateMissing(event.guild_members, existing, g, apps, nextId)
                     ELSE [apps |-> apps, nextId |-> nextId]
         IN Returned(<< [Effect("ensure_resources") EXCEPT !.guild_id = g],
                        CommandSuccess("Reloaded configuration") >>,
                     [Tables EXCEPT !.roles = UpsertAll(roles, g, event.guild_roles),
                                    !.channels = UpsertAll(channels, g, event.guild_channels),
                                    !.apps = made.apps, !.nextId = made.nextId])

-----------------------------------------------------------------------------
(* approve / reject commands *)

\* Application.objects.get_or_create(guild, user_id, status='PENDING', defaults):
\* the one PENDING row, a new row when there is none, MultipleObjectsReturned
\* when there are several
GetOrCreatePending(rows, nid, g, user_id, code) ==
    LET mine == PendingOf(rows, g, user_id)
    IN IF Cardinality(mine) > 1
       THEN [raised |-> TRUE, row |-> NewApplication(nid, g, user_id, code),
             apps |-> rows, nextId |-> nid]
       ELSE IF mine # {}
       THEN [raised |-> FALSE, row |-> rows[CHOOSE i \in mine : TRUE],
             apps |-> rows, nextId |-> nid]
       ELSE [raised |-> FALSE, row |-> NewApplication(nid, g, user_id, code),
             apps |-> SaveRow(rows, NewApplication(nid, g, user_id, code)),
             nextId |-> nid + 1]

RECURSIVE BulkApprove(_, _, _, _, _, _, _)
\* the loop of _cmd_bulk_approve over members_with_role
BulkApprove(members, rows, nid, g, event, actions, approved) ==
    IF members = <<>>
    THEN [raised |-> FALSE, actions |-> actions, apps |-> rows, nextId |-> nid,
          approved |-> approved]
    ELSE LET got == GetOrCreatePending(rows, nid, g, Head(members), "bulk")
         IN IF got.raised
            THEN [raised |-> TRUE, actions |-> <<>>, apps |-> got.apps, nextId |-> got.nextId,
                  approved |-> approved]
            ELSE LET r == approve_user(got.apps, g, got.row, event.author, event, <<>>, <<>>)
                 IN BulkApprove(Tail(members), r.apps, got.nextId, g, event,
                                actions \o r.actions, approved + 1)

\* the report: BULK_APPROVE_RESULT formatted with the number approved
cmd_bulk_approve(g, event, target_role) ==
    LET r == BulkApprove(event.members_with_role, apps, nextId, g, event, <<>>, 0)
        st == [Tables EXCEPT !.apps = r.apps, !.nextId = r.nextId]
    IN IF r.raised THEN Escaped(st)
       ELSE Returned(Append(r.actions, [Reply(Rendered("BULK_APPROVE_RESULT", ""))
                                            EXCEPT !.count = r.approved]), st)

\* approve that refuses a user who has no PENDING application
cmd_approve_pending_only(g, event) ==
    IF ~IsAdmin(g, event) THEN CmdError("ADMIN_REQUIRED", Tables)
    ELSE IF Len(event.args) < 1 THEN CmdError("Usage", Tables)
    ELSE IF event.user_mentions = <<>> /\ event.role_mentions # <<>>
    THEN cmd_bulk_approve(g, event, event.role_mentions[1])
    ELSE IF event.user_mentions = <<>> THEN CmdError("Please mention the user to approve", Tables)
    ELSE LET mine == PendingOf(apps, g, event.user_mentions[1])
         IN IF mine = {} THEN CmdError("NO_PENDING_APP", Tables)
            ELSE LET r == approve_user(apps, g, apps[Newest(mine)], event.author, event,
                                       <<>>, event.channel_mentions)
                 IN Returned(Append(r.actions, Reply(Rendered("APPROVE_CONFIRM", ""))),
                             [Tables EXCEPT !.apps = r.apps])

cmd_approve(g, event) ==
    IF ~IsAdmin(g, event) THEN CmdError("ADMIN_REQUIRED", Tables)
    ELSE IF Len(event.args) < 1 THEN CmdError("Usage", Tables)
    ELSE IF event.user_mentions = <<>> /\ event.role_mentions # <<>>
    THEN cmd_bulk_approve(g, event, event.role_mentions[1])
    ELSE IF event.user_mentions = <<>> THEN CmdError("Please mention the user to approve", Tables)
    ELSE LET target == event.user_mentions[1]
             got == GetOrCreatePending(apps, nextId, g, target, "manual")
             extra_role_ids == SelectSeq(event.role_mentions,
                                         LAMBDA rid : rid # gs[g].bot_admin_role_id)
             r == approve_user(got.apps, g, got.row, event.author, event,
                               extra_role_ids, event.channel_mentions)
         IN IF got.raised THEN Escaped(Tables)
            ELSE Returned(Append(r.actions, Reply(Rendered("APPROVE_CONFIRM", ""))),
                          [Tables EXCEPT !.apps = r.apps, !.nextId = got.nextId])

\* reject that takes the user's newest application whatever its status
cmd_reject_any_status(g, event) ==
    IF ~IsAdmin(g, event) THEN CmdError("ADMIN_REQUIRED", Tables)
    ELSE IF Len(event.args) < 1 THEN CmdError("Usage", Tables)
    ELSE IF event.user_mentions = <<>> THEN CmdError("Please mention the user to reject", Tables)
    ELSE LET target == event.user_mentions[1]
             reason == IF Len(event.args) > 1 THEN JoinWords(Tail(event.args))
                       ELSE "No reason provided"
             mine == {i \in DOMAIN apps : apps[i].guild = g /\ apps[i].user_id = target}
         IN IF mine = {} THEN CmdError("NO_PENDING_APP", Tables)
            ELSE LET r == reject_user(apps, g, apps[Newest(mine)], event.author, event, reason)
                 IN Returned(Append(r.actions, Reply(Rendered("REJECT_CONFIRM", reason))),
                             [Tables EXCEPT !.apps = r.apps])

cmd_reject(g, event) ==
    IF ~IsAdmin(g, event) THEN CmdError("ADMIN_REQUIRED", Tables)
    ELSE IF Len(event.args) < 1 THEN CmdError("Usage", Tables)
    ELSE IF event.user_mentions = <<>> THEN CmdError("Please mention the user to reject", Tables)
    ELSE LET target == event.user_mentions[1]
             reason == IF Len(event.args) > 1 THEN JoinWords(Tail(event.args))
                       ELSE "No reason provided"
             mine == PendingOf(apps, g, target)
         IN IF mine = {} THEN CmdError("NO_PENDING_APP", Tables)
            ELSE LET r == reject_user(apps, g, apps[Newest(mine)], event.author, event, reason)
                 IN Returned(Append(r.actions, Reply(Rendered("REJECT_CONFIRM", reason))),
                             [Tables EXCEPT !.apps = r.apps])

-----------------------------------------------------------------------------
(* cleanup, auto-translate, getaccess *)

CleanupCount == 50
CleanallCount == 999

\* cleanup of the guild's bounce channel, wherever the command was sent
CleanupBounce(g, event, count, tpl) ==
    IF ~IsAdmin(g, event) THEN CmdError("ADMIN_REQUIRED", Tables)
    ELSE IF event.channel_id = NULL THEN CmdError("Could not determine the current channel", Tables)
    ELSE Returned(<< [Effect("cleanup_channel") EXCEPT
                        !.channel_id = gs[g].bounce_channel_id, !.count = count, !.guild_id = g],
                     Reply(Rendered(tpl, "")) >>, Tables)

CleanupCommand(g, event, count, tpl) ==
    IF ~IsAdmin(g, event) THEN CmdError("ADMIN_REQUIRED", Tables)
    ELSE IF event.channel_id = NULL THEN CmdError("Could not determine the current channel", Tables)
    ELSE Returned(<< [Effect("cleanup_channel") EXCEPT
                        !.channel_id = event.channel_id, !.count = count, !.guild_id = g],
                     Reply(Rendered(tpl, "")) >>, Tables)

cmd_cleanup(g, event) == CleanupCommand(g, event, CleanupCount, "CLEANUP_REPLY")

cmd_cleanall(g, event) == CleanupCommand(g, event, CleanallCount, "CLEANALL_REPLY")

\* validate_language: the code for a supported code or language name, "" (None)
\* for anything else
validate_language(lang_input) ==
    CASE Lower(lang_input) = "fr" -> "fr"
      [] Lower(lang_input) = "french" -> "fr"
      [] OTHER -> ""

\* event.translator_down: the language lookup raised and the input is taken as it is
cmd_auto_translate(g, event) ==
    IF ~IsAdmin(g, event) THEN CmdError("ADMIN_REQUIRED", Tables)
    ELSE IF Len(event.args) < 1 THEN CmdError("Usage", Tables)
    ELSE IF Lower(event.args[1]) = "off"
    THEN Returned(<<Reply(Rendered("AUTO_TRANSLATE_OFF", ""))>>,
                  [Tables EXCEPT !.gs[g].language = ""])
    ELSE IF Lower(event.args[1]) = "on"
    THEN IF Len(event.args) < 2 THEN CmdError("Usage", Tables)
         ELSE LET code == IF event.translator_down THEN Lower(event.args[2])
                          ELSE validate_language(event.args[2])
              IN IF code = "" THEN CmdError("Unsupported language", Tables)
                 ELSE Returned(<<Reply(Rendered("AUTO_TRANSLATE_ON", code))>>,
                               [Tables EXCEPT !.gs[g].language = code])
    ELSE CmdError("Usage", Tables)

cmd_getaccess(event) ==
    LET dm(tpl) == [Effect("send_dm") EXCEPT !.user_id = event.author.id,
                                             !.content = Rendered(tpl, "")]
    IN IF event.admin_guilds = <<>> THEN Returned(<<dm("GETACCESS_NO_ADMIN")>>, Tables)
       ELSE IF event.admin_guilds[1] \notin DOMAIN gs
       THEN Returned(<<dm("Server not found")>>, Tables)
       ELSE LET tok == [user_id |-> event.author.id, guild |-> event.admin_guilds[1]]
            IN IF tok \in tokens THEN Returned(<<dm("GETACCESS_EXISTS")>>, Tables)
               ELSE Returned(<<dm("GETACCESS_RESPONSE")>>,
                             [Tables EXCEPT !.tokens = tokens \cup {tok}])

-----------------------------------------------------------------------------
(* Command routing *)

BuiltinNames ==
    {"help", "addrule", "delrule", "listrules", "setmode", "listfields", "reload",
     "approve", "reject", "cleanup", "cleanall", "auto-translate"}

Builtin(name, g, event) ==
    CASE name = "help" -> cmd_help(g, event)
      [] name = "addrule" -> cmd_addrule(g, event)
      [] name = "delrule" -> cmd_delrule(g, event)
      [] name = "listrules" -> cmd_listrules(g, event)
      [] name = "setmode" -> cmd_setmode(g, event)
      [] name = "listfields" -> cmd_listfields(g, event)
      [] name = "reload" -> cmd_reload(g, event)
      [] name = "approve" -> cmd_approve(g, event)
      [] name = "reject" -> cmd_reject(g, event)
      [] name = "cleanup" -> cmd_cleanup(g, event)
      [] name = "cleanall" -> cmd_cleanall(g, event)
      [] name = "auto-translate" -> cmd_auto_translate(g, event)

\* except _CmdError: one COMMAND_ERROR reply carrying the message
CommandError(message) == Reply(Rendered("COMMAND_ERROR", message))

Caught(out) ==
    IF out.err # "" THEN Returned(<<CommandError(out.err)>>, out.st) ELSE out

\* the event a custom command's actions are interpreted on: no member, no invite
CommandEngineEvent(event) ==
    EngineEvent(event.guild_id, NULL, NoneStr, event.command, NoneStr)

\* the enabled COMMAND automations whose trigger_config.name is the command
CustomCommands(g, name) ==
    SelectSeq(EnabledAutomations(g, "COMMAND"),
              LAMBDA a : "name" \in DOMAIN a.trigger_config /\ a.trigger_config["name"] = name)

RunCustom(auto, g, event) ==
    IF auto.admin_only /\ ~IsAdmin(g, event)
    THEN Returned(<<CommandError("ADMIN_REQUIRED")>>, Tables)
    ELSE FromEngine(RunActions(EnabledActions(auto), apps, nextId, g, CommandEngineEvent(event)))

\* the names listed when the enabled filter is left out
CommandNamesWithDisabled(g) ==
    BuiltinNames \cup
        {IF "name" \in DOMAIN a.trigger_config THEN a.trigger_config["name"] ELSE "?"
            : a \in Range(AllAutomations(g, "COMMAND"))}

\* the names listed by the 'not found' reply
CommandNames(g) ==
    BuiltinNames \cup
        {IF "name" \in DOMAIN a.trigger_config THEN a.trigger_config["name"] ELSE "?"
            : a \in Range(EnabledAutomations(g, "COMMAND"))}

\* routing that looks at the custom automations before the built-in table
handle_command_customs_first(event) ==
    IF event.command = "getaccess"
    THEN IF event.guild_id # NULL
         THEN Returned(<<Reply(Rendered("DM_ONLY_WARNING", ""))>>, Tables)
         ELSE cmd_getaccess(event)
    ELSE IF event.guild_id = NULL
    THEN Returned(<<Reply(Rendered("SERVER_ONLY_WARNING", ""))>>, Tables)
    ELSE IF event.guild_id \notin DOMAIN gs
    THEN Returned(<<Reply(Rendered("SERVER_NOT_CONFIGURED", ""))>>, Tables)
    ELSE LET g == event.guild_id
             custom == CustomCommands(g, event.command)
         IN IF custom # <<>> THEN RunCustom(custom[1], g, event)
            ELSE IF event.command \in BuiltinNames THEN Caught(Builtin(event.command, g, event))
            ELSE Returned(<< [Reply(Rendered("COMMAND_NOT_FOUND", event.command))
                                EXCEPT !.items = CommandNames(g)] >>, Tables)

\* routing that looks the guild up before it looks at the command name
handle_command_guild_first(event) ==
    IF event.guild_id = NULL
    THEN IF event.command = "getaccess" THEN cmd_getaccess(event)
         ELSE Returned(<<Reply(Rendered("SERVER_ONLY_WARNING", ""))>>, Tables)
    ELSE IF event.guild_id \notin DOMAIN gs
    THEN Returned(<<Reply(Rendered("SERVER_NOT_CONFIGURED", ""))>>, Tables)
    ELSE IF event.command = "getaccess"
    THEN Returned(<<Reply(Rendered("DM_ONLY_WARNING", ""))>>, Tables)
    ELSE LET g == event.guild_id
         IN IF event.command \in BuiltinNames THEN Caught(Builtin(event.command, g, event))
            ELSE LET custom == CustomCommands(g, event.command)
                 IN IF custom # <<>> THEN RunCustom(custom[1], g, event)
                    ELSE Returned(<< [Reply(Rendered("COMMAND_NOT_FOUND", event.command))
                                        EXCEPT !.items = CommandNames(g)] >>, Tables)

handle_command(event) ==
    IF event.command = "getaccess"
    THEN IF event.guild_id # NULL
         THEN Returned(<<Reply(Rendered("DM_ONLY_WARNING", ""))>>, Tables)
         ELSE cmd_getaccess(event)
    ELSE IF event.guild_id = NULL
    THEN Returned(<<Reply(Rendered("SERVER_ONLY_WARNING", ""))>>, Tables)
    ELSE IF event.guild_id \notin DOMAIN gs
    THEN Returned(<<Reply(Rendered("SERVER_NOT_CONFIGURED", ""))>>, Tables)
    ELSE LET g == event.guild_id
         IN IF event.command \in BuiltinNames THEN Caught(Builtin(event.command, g, event))
            ELSE LET custom == CustomCommands(g, event.command)
                 IN IF custom # <<>> THEN RunCustom(custom[1], g, event)
                    ELSE Returned(<< [Reply(Rendered("COMMAND_NOT_FOUND", event.command))
                                        EXCEPT !.items = CommandNames(g)] >>, Tables)

-----------------------------------------------------------------------------
(* The web form (core/views.py form_view, POST) and the bot's executor       *)

\* Application.objects.get(guild, user_id, status='PENDING') of form_view:
\* "none", "one" or "many" (MultipleObjectsReturned)
FormLookup(rows, g, u) ==
    LET mine == PendingOf(rows, g, u)
    IN IF mine = {} THEN "none" ELSE IF Cardinality(mine) > 1 THEN "many" ELSE "one"

\* the required fields whose posted value is empty
MissingRequired(g, responses) ==
    {f \in FieldsOf(g) : f.required /\ responses[f.id] = <<>>}

\* form_view without the 'already submitted' test
form_view_overwrites(event) ==
    LET g == event.guild_id
        found == FormLookup(apps, g, event.user_id)
    IN IF g \notin DOMAIN gs THEN Returned(<<>>, Tables)
       ELSE IF found = "none" THEN Returned(<<>>, Tables)
       ELSE IF found = "many" THEN Escaped(Tables)
       ELSE LET application == apps[CHOOSE i \in PendingOf(apps, g, event.user_id) : TRUE]
            IN IF FieldsOf(g) = {} THEN Returned(<<>>, Tables)
               ELSE IF MissingRequired(g, event.responses) # {} THEN Returned(<<>>, Tables)
               ELSE Returned(<<>>,
                        [Tables EXCEPT !.apps =
                            SaveRow(apps, [application EXCEPT !.responses = event.responses])])

\* POST to form_view: event.user_id, event.guild_id, event.responses (the
\* posted value of each field, a multiselect being the ','-join of its values)
form_view(event) ==
    LET g == event.guild_id
        found == FormLookup(apps, g, event.user_id)
    IN IF g \notin DOMAIN gs THEN Returned(<<>>, Tables)
       ELSE IF found = "none" THEN Returned(<<>>, Tables)
       ELSE IF found = "many" THEN Escaped(Tables)
       ELSE LET application == apps[CHOOSE i \in PendingOf(apps, g, event.user_id) : TRUE]
            IN IF application.responses # EmptyResponses THEN Returned(<<>>, Tables)
               ELSE IF FieldsOf(g) = {} THEN Returned(<<>>, Tables)
               ELSE IF MissingRequired(g, event.responses) # {} THEN Returned(<<>>, Tables)
               ELSE Returned(<<>>,
                        [Tables EXCEPT !.apps =
                            SaveRow(apps, [application EXCEPT !.responses = event.responses])])

\* the id Discord gives the message that carries application app_id
MessageOf(app_id) == 10 + app_id

-----------------------------------------------------------------------------
(* Configuration the model starts from *)

GuildRow(mode, pending_role, bounce, pending_channel) ==
    [mode |-> mode, bot_admin_role_id |-> 5, pending_role_id |-> pending_role,
     bounce_channel_id |-> bounce, pending_channel_id |-> pending_channel, language |-> ""]

\* guild 1 as the administrator may have left it; guild 2 fully configured
GuildProfiles ==
    { GuildRow("APPROVAL", 6, 8, 9), GuildRow("APPROVAL", 6, NULL, 9),
      GuildRow("APPROVAL", NULL, 8, NULL), GuildRow("AUTO", 6, 8, 9) }

GuildTables == {[g \in GuildIds |-> IF g = 1 THEN p ELSE GuildRow("APPROVAL", 6, 8, 9)] : p \in GuildProfiles}

Rule(g, code, ids) == [guild |-> g, invite_code |-> code, roles |-> ids]

RuleTables ==
    { {Rule(2, "default", {3})},
      {Rule(1, "default", {3}), Rule(2, "default", {3})},
      {Rule(1, "default", {3}), Rule(1, "abc", {3, 4}), Rule(2, "default", {3})} }

CachedRoles ==
    {[guild |-> g, discord_id |-> r.id, name |-> r.name] :
        g \in GuildIds,
        r \in {[id |-> 5, name |-> "BotAdmin"], [id |-> 6, name |-> "Pending"],
               [id |-> 3, name |-> "Members"]}}

ActionRow(order, type, config) ==
    [order |-> order, action_type |-> type, config |-> config, enabled |-> TRUE]

AutomationRow(g, name, trigger, trigger_config, admin_only, actions) ==
    [guild |-> g, name |-> name, trigger |-> trigger, trigger_config |-> trigger_config,
     admin_only |-> admin_only, enabled |-> TRUE, actions |-> actions]

Mode(m) == [k \in {"mode"} |-> m]

\* the default automations of a guild: log and give the rule's roles in AUTO
\* mode; Pending role, tracked application embed and a welcome DM in APPROVAL mode
DefaultAutomations(g) ==
    { AutomationRow(g, 2, "MEMBER_JOIN", Mode("AUTO"), FALSE,
        { ActionRow(1, "SEND_EMBED", [NoConfig EXCEPT !.channel = BounceRef,
                                                      !.template = "JOIN_LOG_AUTO"]),
          ActionRow(2, "ADD_ROLE", [NoConfig EXCEPT !.from_rule = TRUE]) }),
      AutomationRow(g, 1, "MEMBER_JOIN", Mode("APPROVAL"), FALSE,
        { ActionRow(1, "ADD_ROLE", [NoConfig EXCEPT !.role = PendingRef]),
          ActionRow(2, "SEND_EMBED", [NoConfig EXCEPT !.channel = BounceRef,
                                                      !.template = "application",
                                                      !.track = TRUE]),
          ActionRow(3, "SEND_DM", [NoConfig EXCEPT !.template = "WELCOME_DM_APPROVAL"]) }) }

NoCall ==
    [op |-> "none", event |-> [guild_id |-> NULL], actions |-> <<>>, raised |-> FALSE]

\* the threads or processes that may run a handler at the same time
Workers == {1, 2}

InitTables ==
    /\ gs \in GuildTables
    /\ rules \in RuleTables
    /\ roles = CachedRoles
    /\ channels = {}
    /\ apps = <<>>
    /\ nextId = 1
    /\ tokens = {}
    /\ last = NoCall
    /\ inflight = [w \in Workers |-> <<>>]

Init ==
    /\ InitTables
    /\ rules = {Rule(1, "default", {3}), Rule(2, "default", {3})}
    /\ autos = UNION {DefaultAutomations(g) : g \in GuildIds}

-----------------------------------------------------------------------------
(* Steps: one handler call each *)

\* the call's writes and its result; no more than MaxApps rows are ever created
Apply(op, event, out) ==
    /\ out.st.nextId <= MaxApps + 1
    /\ inflight' = inflight
    /\ gs' = out.st.gs
    /\ roles' = out.st.roles
    /\ channels' = out.st.channels
    /\ rules' = out.st.rules
    /\ apps' = out.st.apps
    /\ nextId' = out.st.nextId
    /\ tokens' = out.st.tokens
    /\ autos' = autos
    /\ last' = [op |-> op, event |-> event, actions |-> out.actions, raised |-> out.raised]

Admin == [id |-> 7, name |-> "Admin", role_ids |-> {5}]
Member == [id |-> 8, name |-> "Member", role_ids |-> {3}]

\* an on_message event in a guild
CommandEvent(g, command, args, author) ==
    [command |-> command, args |-> args, guild_id |-> g, channel_id |-> 8, author |-> author,
     user_mentions |-> <<>>, role_mentions |-> <<>>, channel_mentions |-> <<>>,
     guild_roles |-> <<>>, guild_channels |-> <<>>, guild_members |-> <<>>,
     members_with_role |-> <<>>, admin_guilds |-> <<>>, translator_down |-> FALSE,
     message_id |-> NULL, original_embed |-> <<>>]

\* the (guild, user) pairs events are about
Members == {<<1, 1>>, <<1, 2>>, <<2, 1>>}

JoinEvent(g, u, code) == EngineEvent(g, u, code, NoneStr, NoneStr)

\* on_member_join: a member arrives through one of the given invite codes
Join(codes) ==
    \E m \in Members, code \in codes :
        LET event == JoinEvent(m[1], m[2], code)
        IN \E out \in {handle_member_join(event)} : Apply("join", event, out)

MemberJoin == Join({"abc"})

MemberRemove ==
    \E m \in Members :
        LET event == [guild_id |-> m[1], user_id |-> m[2]]
        IN \E out \in {handle_member_remove(event)} : Apply("leave", event, out)

\* a reaction on the message that carries application id (the bot reads the id
\* from the embed footer of a message of that guild)
ReactionEvent(g, id, emoji) ==
    [guild_id |-> g, message_id |-> MessageOf(id), emoji |-> emoji, application_id |-> id,
     admin |-> [id |-> Admin.id, name |-> Admin.name],
     original_embed |-> <<"User", "Invite", "Invited by", "Actions">>]

\* NULL: a reaction event that carries no application id
Reaction ==
    \E id \in {NULL} \cup 1..MaxApps, emoji \in {"approve_mark", "reject_mark", "thumbs_up"} :
        LET event == ReactionEvent(IF id \in DOMAIN apps THEN apps[id].guild ELSE 1, id, emoji)
        IN \E out \in {handle_reaction(event)} : Apply("reaction", event, out)

ApproveEvent(g, u, author) ==
    [CommandEvent(g, "approve", <<"@user">>, author) EXCEPT !.user_mentions = <<u>>]

BulkApproveEvent(g, members) ==
    [CommandEvent(g, "approve", <<"@Pending">>, Admin) EXCEPT
        !.role_mentions = <<6>>, !.members_with_role = members]

RejectEvent(g, u, args, author) ==
    [CommandEvent(g, "reject", args, author) EXCEPT !.user_mentions = <<u>>]

ReloadEvent(g, members) ==
    [CommandEvent(g, "reload", <<>>, Admin) EXCEPT
        !.guild_roles = <<[id |-> 3, name |-> "Members"]>>, !.guild_members = members]

\* the members of guild g among the listed ids, as the bot lists them
Listed(g, ids) == SelectSeq(ids, LAMBDA u : <<g, u>> \in Members)

\* the review and reload commands administrators send
ReviewCommands ==
    {ApproveEvent(m[1], m[2], Admin) : m \in Members}
        \cup {BulkApproveEvent(g, Listed(g, ids)) : g \in GuildIds, ids \in {<<1>>, <<1, 2>>}}
        \cup {RejectEvent(m[1], m[2], args, Admin) :
                m \in Members, args \in {<<"@user">>, <<"@user", "spam">>}}
        \cup {ReloadEvent(g, [i \in 1..Len(Listed(g, ids)) |->
                                [id |-> Listed(g, ids)[i], bot |-> FALSE]]
                             \o <<[id |-> 9, bot |-> TRUE]>>) :
                g \in GuildIds, ids \in {<<1>>, <<1, 2>>}}

\* on_message: one of the given command events is routed
Command(events) ==
    \E event \in events :
        \E out \in {handle_command(event)} : Apply(event.command, event, out)

ReviewCommand == Command(ReviewCommands)

Next ==
    \/ MemberJoin
    \/ MemberRemove
    \/ Reaction
    \/ ReviewCommand

Spec == Init /\ [][Next]_vars

-----------------------------------------------------------------------------
(* Properties of the application lifecycle *)

\* the effects of a call that satisfy test
Some(call, Test(_)) == \E i \in 1..Len(call.actions) : Test(call.actions[i])

Replied(call, tpl) == Some(call, LAMBDA a : a.type = "reply" /\ a.content.tpl = tpl)

\* the call was a reaction with this emoji on the message of application id
ReactionOn(call, id, emoji) ==
    call.op = "reaction" /\ call.event.emoji = emoji /\ call.event.application_id = id

\* the call was an approve / reject command for one user that was confirmed
ApproveConfirmed(call) ==
    call.op = "approve" /\ call.event.user_mentions # <<>> /\ Replied(call, "APPROVE_CONFIRM")

RejectConfirmed(call) == call.op = "reject" /\ Replied(call, "REJECT_CONFIRM")

Target(call) == call.event.user_mentions[1]

ReviewedBy(row, admin) ==
    /\ row.status = "REJECTED"
    /\ row.reviewed_by = admin.id /\ row.reviewed_by # NULL
    /\ row.reviewed_by_name = admin.name /\ row.reviewed_by_name # ""
    /\ row.reviewed_at # NULL

\* C1: once an approve (command or check-mark reaction) has completed for an
\* application, no row with its id exists; once a reject (command or cross-mark
\* reaction) has completed, the row is still there with status REJECTED and
\* reviewed_by, reviewed_by_name and reviewed_at set.
C1_ApproveDeletesRejectKeeps ==
    [][ /\ \A id \in DOMAIN apps :
            /\ (ReactionOn(last', id, "approve_mark") /\ apps[id].status = "PENDING")
                    => id \notin DOMAIN apps'
            /\ (ReactionOn(last', id, "reject_mark") /\ apps[id].status = "PENDING")
                    => id \in DOMAIN apps' /\ ReviewedBy(apps'[id], last'.event.admin)
        /\ ApproveConfirmed(last') =>
                \A id \in PendingOf(apps, last'.event.guild_id, Target(last')) \cup {nextId} :
                    id \notin DOMAIN apps'
        /\ RejectConfirmed(last') =>
                LET id == Newest(PendingOf(apps, last'.event.guild_id, Target(last')))
                IN id \in DOMAIN apps' /\ ReviewedBy(apps'[id], last'.event.author)
      ]_vars

\* a reject command has just been confirmed on a row, after another application
\* was approved and deleted
C1_Witness ==
    /\ RejectConfirmed(last)
    /\ \E id \in DOMAIN apps : ReviewedBy(apps[id], last.event.author)
    /\ \E id \in 1..(nextId - 1) : id \notin DOMAIN apps

\* C2: status only moves forward.  A PENDING row stays PENDING, becomes
\* REJECTED or is deleted, and is deleted only by an approve; a REJECTED row
\* stays a REJECTED row: it never becomes PENDING again and no approve (or any
\* other operation) deletes it.
C2_StatusOnlyMovesForward ==
    [][ \A id \in DOMAIN apps :
            /\ apps[id].status = "REJECTED" =>
                    id \in DOMAIN apps' /\ apps'[id].status = "REJECTED"
            /\ apps[id].status = "PENDING" =>
                    \/ id \in DOMAIN apps' /\ apps'[id].status \in {"PENDING", "REJECTED"}
                    \/ id \notin DOMAIN apps'
                        /\ (ReactionOn(last', id, "approve_mark") \/ last'.op = "approve")
      ]_vars

\* an approve reaction has just been sent to the message of a REJECTED application
C2_Witness ==
    \E id \in DOMAIN apps :
        ReactionOn(last, id, "approve_mark") /\ apps[id].status = "REJECTED"

\* C5: a member leaving turns each of their PENDING applications in that guild
\* into REJECTED and does nothing else: no effect is returned, every other row
\* is as it was, and no other table changes.
C5_MemberRemoveOnlyCancels ==
    [][ last'.op = "leave" =>
            /\ last'.actions = <<>>
            /\ DOMAIN apps' = DOMAIN apps
            /\ \A id \in DOMAIN apps :
                    IF /\ apps[id].guild = last'.event.guild_id
                       /\ apps[id].user_id = last'.event.user_id
                       /\ apps[id].status = "PENDING"
                    THEN apps'[id] = [apps[id] EXCEPT !.status = "REJECTED"]
                    ELSE apps'[id] = apps[id]
            /\ UNCHANGED <<gs, roles, channels, rules, nextId, autos, tokens>>
      ]_vars

\* the member that left had a PENDING application here, now REJECTED, and also
\* has one in another guild, still PENDING
C5_Witness ==
    /\ last.op = "leave"
    /\ \E id \in DOMAIN apps :
            /\ apps[id].guild = last.event.guild_id /\ apps[id].user_id = last.event.user_id
            /\ apps[id].status = "REJECTED" /\ apps[id].reviewed_by = NULL
    /\ \E id \in DOMAIN apps :
            /\ apps[id].guild # last.event.guild_id /\ apps[id].user_id = last.event.user_id
            /\ apps[id].status = "PENDING"

\* the call is an administrator's approve command that mentions a user
AdminApproves(call) ==
    /\ call.op = "approve" /\ call.event.user_mentions # <<>>
    /\ gs[call.event.guild_id].bot_admin_role_id \in call.event.author.role_ids

C10_ApproveAnswersNoPending ==
    [][ ( /\ AdminApproves(last')
          /\ \A id \in DOMAIN apps :
                ~(apps[id].guild = last'.event.guild_id /\ apps[id].user_id = Target(last')) )
        => Some(last', LAMBDA a : a.content.tpl = "NO_PENDING_APP"
                                    \/ a.content.message = "NO_PENDING_APP")
      ]_vars

-----------------------------------------------------------------------------
(* The command router: every built-in and two custom commands, sent by an   *)
(* administrator and by an ordinary member of guild 1                        *)

Named(name) == [k \in {"name"} |-> name]

\* custom commands of guild 1: 'announce' for administrators, 'rules' for all,
\* one named like the built-in 'help', and a disabled one, 'old'
CustomAutomations ==
    { AutomationRow(1, 3, "COMMAND", Named("announce"), TRUE,
        { ActionRow(1, "SEND_MESSAGE", [NoConfig EXCEPT !.channel = BounceRef,
                                                        !.content = "Announcement"]) }),
      AutomationRow(1, 4, "COMMAND", Named("rules"), FALSE,
        { ActionRow(1, "SEND_MESSAGE", [NoConfig EXCEPT !.channel = PendingRef,
                                                        !.content = "Read the rules"]) }),
      AutomationRow(1, 5, "COMMAND", Named("help"), FALSE,
        { ActionRow(1, "SEND_MESSAGE", [NoConfig EXCEPT !.channel = PendingRef,
                                                        !.content = "Custom help"]) }),
      [AutomationRow(1, 6, "COMMAND", Named("old"), FALSE,
        { ActionRow(1, "SEND_MESSAGE", [NoConfig EXCEPT !.channel = PendingRef,
                                                        !.content = "Old command"]) })
        EXCEPT !.enabled = FALSE] }

GuildRoles == <<[id |-> 3, name |-> "Members"], [id |-> 4, name |-> "VIP"]>>

\* command name and arguments as typed
Typed ==
    { <<"help", <<>>>>, <<"listrules", <<>>>>, <<"listfields", <<>>>>,
      <<"addrule", <<"abc", "Members,VIP">>>>, <<"addrule", <<"zzz", "members,Nope">>>>,
      <<"addrule", <<"zzz", "VIP">>>>, <<"addrule", <<"mycode">>>>,
      <<"addrule", <<"abc", "members,Nope">>>>,
      <<"delrule", <<"abc">>>>, <<"delrule", <<"zzz">>>>,
      <<"setmode", <<"auto">>>>, <<"setmode", <<"APPROVAL">>>>, <<"setmode", <<"bogus">>>>,
      <<"setmode", <<"Approval">>>>, <<"setmode", <<>>>>,
      <<"reload", <<>>>>, <<"approve", <<"@user">>>>, <<"reject", <<"@user">>>>,
      <<"cleanup", <<>>>>, <<"cleanall", <<>>>>,
      <<"auto-translate", <<"on", "FR">>>>, <<"auto-translate", <<"on", "xx">>>>,
      <<"auto-translate", <<"off">>>>,
      <<"announce", <<>>>>, <<"rules", <<>>>>, <<"old", <<>>>>, <<"nothing", <<>>>> }

\* commands sent in a direct message (no guild), and getaccess sent in a direct
\* message by somebody who administers guild 1 or no guild, in guild 1, and in
\* a guild that has no GuildSettings row
DirectCommands ==
    { CommandEvent(NULL, t[1], t[2], [Admin EXCEPT !.role_ids = {}]) :
        t \in { <<"help", <<>>>>, <<"setmode", <<"auto">>>>, <<"addrule", <<"zzz", "VIP">>>>,
                <<"rules", <<>>>>, <<"nothing", <<>>>> } }
    \cup { [CommandEvent(NULL, "getaccess", <<>>, [Admin EXCEPT !.role_ids = {}])
                EXCEPT !.admin_guilds = guilds] : guilds \in {<<>>, <<1>>} }
    \cup { [CommandEvent(g, "getaccess", <<>>, Admin) EXCEPT !.admin_guilds = <<1>>] :
                g \in {1, 3} }

\* cleanup and cleanall sent from a channel that is not the bounce channel, and
\* in an event that carries no channel
ElsewhereCommands ==
    { [CommandEvent(1, name, <<>>, Admin) EXCEPT !.channel_id = c] :
        name \in {"cleanup", "cleanall"}, c \in {7, NULL} }

RouterCommands ==
    { [CommandEvent(1, t[1], t[2], author) EXCEPT
            !.user_mentions = IF t[1] \in {"approve", "reject"} THEN <<1>> ELSE <<>>,
            !.guild_roles = IF t[1] = "addrule" THEN GuildRoles
                            ELSE IF t[1] = "reload"
                                 THEN GuildRoles \o <<[id |-> 6, name |-> "Waiting"]>>
                                 ELSE <<>>,
            !.guild_channels = IF t[1] = "reload" THEN <<[id |-> 8, name |-> "bounce"]>> ELSE <<>>,
            !.guild_members = IF t[1] = "reload" THEN <<[id |-> 1, bot |-> FALSE]>> ELSE <<>>]
        : t \in Typed, author \in {Admin, Member} }
    \cup DirectCommands
    \cup ElsewhereCommands

InitCommands ==
    /\ InitTables
    /\ gs[1].pending_role_id # NULL /\ gs[1].bounce_channel_id # NULL
    /\ rules = {Rule(1, "default", {3}), Rule(1, "abc", {3, 4}), Rule(2, "default", {3})}
    /\ autos = UNION {DefaultAutomations(g) : g \in GuildIds} \cup CustomAutomations

RouterCommand == Command(RouterCommands)

NextCommands ==
    \/ RouterCommand

SpecCommands == InitCommands /\ [][NextCommands]_vars

\* the commands that require the administrator role
GatedBuiltins ==
    {"addrule", "delrule", "setmode", "reload", "approve", "reject", "cleanup", "cleanall",
     "auto-translate"}

\* the command of the call is admin-gated: a gated built-in, or a custom command
\* whose automation (the one the router runs for that name) is admin_only
Gated(call) ==
    /\ call.event.guild_id \in DOMAIN gs
    /\ \/ call.event.command \in GatedBuiltins
       \/ /\ call.event.command \notin BuiltinNames \cup {"getaccess"}
          /\ CustomCommands(call.event.guild_id, call.event.command) # <<>>
          /\ CustomCommands(call.event.guild_id, call.event.command)[1].admin_only

\* the call is a command whose author lacks the guild's administrator role
Refused(call) ==
    /\ call.op \notin {"none", "join", "leave", "reaction", "form", "track"}
    /\ Gated(call)
    /\ gs[call.event.guild_id].bot_admin_role_id \notin call.event.author.role_ids

AdminRequiredReply ==
    [Effect("reply") EXCEPT !.content = [tpl |-> "COMMAND_ERROR", message |-> "ADMIN_REQUIRED"]]

\* C3: an admin-gated command (addrule, delrule, setmode, reload, approve,
\* reject, cleanup, cleanall, auto-translate, or a custom command whose
\* automation is admin_only) sent by somebody without the guild's administrator
\* role returns exactly one effect: a reply carrying the admin-required message.
C3_RefusalIsOneReply ==
    Refused(last) => ~last.raised /\ last.actions = <<AdminRequiredReply>>

\* a member without the role has just sent the administrators' custom command
C3_Witness ==
    /\ Refused(last)
    /\ last.event.command = "announce"
    /\ last.actions = <<AdminRequiredReply>>

\* C4: a refused admin-gated command executes nothing: guild settings (mode,
\* language), invite rules, cached roles and channels, applications (and every
\* other table) are as they were.
C4_RefusalChangesNothing ==
    [][ Refused(last') => UNCHANGED <<gs, roles, channels, rules, apps, nextId, autos, tokens>> ]_vars

\* a member without the role has just tried to switch to a mode the guild is
\* not in, after an administrator changed rules and language
C4_Witness ==
    /\ Refused(last)
    /\ last.event.command = "setmode" /\ last.event.args # <<>>
    /\ Upper(last.event.args[1]) \in {"AUTO", "APPROVAL"}
    /\ Upper(last.event.args[1]) # gs[1].mode
    /\ gs[1].language = "fr"
    /\ Rule(1, "abc", {3, 4}) \notin rules

-----------------------------------------------------------------------------
(* Member joins under the automation set-ups an administrator can leave      *)
(* guild 1 in                                                                *)

ApplicationEmbed(order, enabled) ==
    [ActionRow(order, "SEND_EMBED", [NoConfig EXCEPT !.channel = BounceRef,
                                                     !.template = "application",
                                                     !.track = TRUE])
        EXCEPT !.enabled = enabled]

PendingRoleAction == ActionRow(1, "ADD_ROLE", [NoConfig EXCEPT !.role = PendingRef])

\* a DM whose template has a placeholder _format_template does not pass
BrokenDM(order) == ActionRow(order, "SEND_DM", [NoConfig EXCEPT !.template = "APPROVAL_NOTIFICATION"])

ApprovalJoin(trigger_config, enabled, actions) ==
    [AutomationRow(1, 1, "MEMBER_JOIN", trigger_config, FALSE, actions) EXCEPT !.enabled = enabled]

\* the APPROVAL-mode join automation of guild 1: as installed; with the embed
\* action twice; with the embed action or the automation disabled; with a
\* failing action before or after the embed; limited to one invite code
JoinSetups ==
    { {ApprovalJoin(Mode("APPROVAL"), TRUE, {PendingRoleAction, ApplicationEmbed(2, TRUE)})},
      {ApprovalJoin(Mode("APPROVAL"), TRUE,
            {PendingRoleAction, ApplicationEmbed(2, TRUE), ApplicationEmbed(3, TRUE)})},
      {ApprovalJoin(Mode("APPROVAL"), TRUE, {PendingRoleAction, ApplicationEmbed(2, FALSE)})},
      {ApprovalJoin(Mode("APPROVAL"), FALSE, {PendingRoleAction, ApplicationEmbed(2, TRUE)})},
      {ApprovalJoin(Mode("APPROVAL"), TRUE, {BrokenDM(1), ApplicationEmbed(2, TRUE)})},
      {ApprovalJoin(Mode("APPROVAL"), TRUE, {ApplicationEmbed(2, TRUE), BrokenDM(3)})},
      {ApprovalJoin([k \in {"mode", "invite_code"} |->
                        IF k = "mode" THEN "APPROVAL" ELSE "abc"], TRUE,
            {PendingRoleAction, ApplicationEmbed(2, TRUE)})} }

InitJoin ==
    /\ InitTables
    /\ rules = {Rule(1, "default", {3}), Rule(2, "default", {3})}
    /\ \E setup \in JoinSetups : autos = setup \cup DefaultAutomations(2)

InviteJoin == Join(InviteCodes)

NextJoin ==
    \/ InviteJoin
    \/ MemberRemove

SpecJoin == InitJoin /\ [][NextJoin]_vars

IsApplicationEmbed(a) ==
    a.enabled /\ a.action_type = "SEND_EMBED" /\ a.config.template = "application"

\* the enabled MEMBER_JOIN automations of the guild that the event triggers
Triggered(event) ==
    {a \in autos : /\ a.guild = event.guild_id /\ a.trigger = "MEMBER_JOIN" /\ a.enabled
                   /\ "mode" \in DOMAIN a.trigger_config =>
                            a.trigger_config["mode"] = gs[event.guild_id].mode
                   /\ "invite_code" \in DOMAIN a.trigger_config =>
                            a.trigger_config["invite_code"] = event.invite_code}

\* the application-embed actions a join runs, and those whose channel resolves
EmbedActions(event) ==
    UNION { {<<a.name, x.order>> : x \in {y \in a.actions : IsApplicationEmbed(y)}}
                : a \in Triggered(event) }

ResolvedEmbedActions(event) ==
    UNION { {<<a.name, x.order>> :
                x \in {y \in a.actions : /\ IsApplicationEmbed(y)
                                         /\ y.config.channel = BounceRef
                                         /\ gs[event.guild_id].bounce_channel_id # NULL}}
                : a \in Triggered(event) }

Tracked(call) == SelectSeq(call.actions, LAMBDA a : a.type = "send_embed_tracked")

\* row id of table rows is a fresh PENDING application of the event's member
FreshApplication(rows, id, event) ==
    /\ id \in DOMAIN rows
    /\ rows[id].guild = event.guild_id /\ rows[id].user_id = event.member_id
    /\ rows[id].status = "PENDING" /\ rows[id].responses = EmptyResponses

-----------------------------------------------------------------------------
(* Approval of applications with form answers and with roles and channels    *)
(* mentioned in the approve command                                          *)

\* the posted values of the two ROLES fields (field 1, field 3): what the page
\* can send (distinct options of field 1, the option of field 3 or nothing) and
\* what any client can send (text that is no id, nothing at all, the id of
\* a role that is no option of the field: 5, the administrators' role)
RoleAnswers ==
    { <<<<Num(3)>>, <<>>>>, <<<<Num(4)>>, <<>>>>, <<<<Num(3), Num(4)>>, <<>>>>,
      <<<<Num(4)>>, <<Num(4)>>>>, <<<<NaN>>, <<>>>>, <<<<>>, <<>>>>, <<<<Num(5)>>, <<>>>> }

FormPosts ==
    { [guild_id |-> m[1], user_id |-> m[2],
       responses |-> <<r[1], IF r[2] = <<>> THEN <<>> ELSE <<Num(7)>>, r[2], <<>>>>]
        : m \in Members, r \in RoleAnswers }

FormSubmit ==
    \E event \in FormPosts :
        \E out \in {form_view(event)} : Apply("form", event, out)

\* approve commands: plain, and with two roles, the administrators' role and a
\* channel mentioned
MentionApprovals ==
    {ApproveEvent(m[1], m[2], Admin) : m \in Members}
        \cup {[ApproveEvent(m[1], m[2], Admin) EXCEPT
                    !.role_mentions = <<4, 3, 5>>, !.channel_mentions = <<7>>] : m \in Members}

MentionApprove == Command(MentionApprovals)

ApproveReaction ==
    \E id \in DOMAIN apps :
        LET event == ReactionEvent(apps[id].guild, id, "approve_mark")
        IN \E out \in {handle_reaction(event)} : Apply("reaction", event, out)

InitForm ==
    /\ InitTables
    /\ gs[1] = GuildRow("APPROVAL", 6, 8, 9)
    /\ autos = UNION {DefaultAutomations(g) : g \in GuildIds}

NextForm ==
    \/ InviteJoin
    \/ FormSubmit
    \/ MentionApprove
    \/ ApproveReaction

SpecForm == InitForm /\ [][NextForm]_vars

\* the roles of the rule an invite code resolves to: the rule of that code, or
\* the guild's 'default' rule when there is none
ResolvedRoles(g, code) ==
    LET exact == {r \in rules : r.guild = g /\ r.invite_code = code}
        fallback == {r \in rules : r.guild = g /\ r.invite_code = "default"}
    IN UNION {r.roles : r \in IF exact # {} THEN exact ELSE fallback}

\* call approved the PENDING application id of the state before it
ApprovedRow(call, rows, id) ==
    /\ id \in DOMAIN rows /\ rows[id].status = "PENDING"
    /\ \/ ReactionOn(call, id, "approve_mark")
       \/ /\ ApproveConfirmed(call)
          /\ rows[id].guild = call.event.guild_id /\ rows[id].user_id = Target(call)

\* C7: approving an application made by a join returns a remove_role for the
\* guild's pending role (when the guild has one), an add_role for every role
\* of the rule resolved for the application's invite code (the 'default' rule
\* when no rule has that code) and a send_dm to the applicant; afterwards the
\* row no longer exists.
C7_ApproveEffects ==
    [][ \A id \in DOMAIN apps :
            (ApprovedRow(last', apps, id) /\ apps[id].invite_code \in InviteCodes) =>
                LET g == apps[id].guild
                    u == apps[id].user_id
                IN /\ gs[g].pending_role_id # NULL =>
                        Some(last', LAMBDA a : a.type = "remove_role" /\ a.guild_id = g
                                /\ a.user_id = u /\ a.role_id = gs[g].pending_role_id)
                   /\ \A rid \in ResolvedRoles(g, apps[id].invite_code) :
                        Some(last', LAMBDA a : a.type = "add_role" /\ a.guild_id = g
                                /\ a.user_id = u /\ a.role_id = rid)
                   /\ Some(last', LAMBDA a : a.type = "send_dm" /\ a.user_id = u)
                   /\ id \notin DOMAIN apps'
      ]_vars

\* the application of a member who joined guild 1, where no invite code has a
\* rule of its own, has just been approved by a check-mark reaction: pending
\* role removed, the default rule's role added, the applicant written to, the
\* tracked embed edited, and the row gone
C7_Witness ==
    /\ ReactionOn(last, 1, "approve_mark") /\ ~last.raised
    /\ last.event.guild_id = 1
    /\ \A r \in rules : r.guild = 1 => r.invite_code = "default"
    /\ 1 \notin DOMAIN apps
    /\ Some(last, LAMBDA a : a.type = "remove_role" /\ a.role_id = 6)
    /\ Some(last, LAMBDA a : a.type = "add_role" /\ a.role_id = 3)
    /\ Some(last, LAMBDA a : a.type = "send_dm")
    /\ Some(last, LAMBDA a : a.type = "edit_message")

\* C8: the add_role effects of one approve are the rule's roles, the roles of
\* the ROLES form answers and the roles mentioned in the command, merged
\* without repetition: no role id is in more than one add_role of the result.
C8_AddRoleOncePerRole ==
    [][ (last'.op \in {"approve", "reaction"} /\ ~last'.raised) =>
            \A i, j \in 1..Len(last'.actions) :
                ( /\ i < j
                  /\ last'.actions[i].type = "add_role" /\ last'.actions[j].type = "add_role"
                  /\ last'.actions[i].user_id = last'.actions[j].user_id )
                => last'.actions[i].role_id # last'.actions[j].role_id
      ]_vars

-----------------------------------------------------------------------------
(* The automation engine under the automations an administrator can set up   *)
(* for guild 1; guild 2 keeps the installed ones                             *)

\* invite rules of the two guilds: guild 1 without rules, with a default only,
\* with a rule for "abc" only, and with both, while guild 2 has other roles
\* under the same codes
EngineRuleTables ==
    { {Rule(2, "default", {4}), Rule(2, "abc", {3, 4})},
      {Rule(1, "default", {3}), Rule(2, "abc", {4})},
      {Rule(1, "abc", {3, 4}), Rule(2, "default", {3})},
      {Rule(1, "default", {3}), Rule(1, "abc", {4}), Rule(2, "default", {3, 4})} }

TriggerTypes == {"MEMBER_JOIN", "MEMBER_LEAVE", "COMMAND", "FORM_SUBMIT", "REACTION"}

Automation(name, trigger, trigger_config, enabled, actions) ==
    [AutomationRow(1, name, trigger, trigger_config, FALSE, actions) EXCEPT !.enabled = enabled]

\* a message to a channel of its own: the channel id tells the automation
\* (tens) and the action's order (units) the message comes from
Marked(name, order, enabled) ==
    [ActionRow(order, "SEND_MESSAGE", [NoConfig EXCEPT !.channel = LiteralRef(10 * name + order),
                                                       !.content = "marker"])
        EXCEPT !.enabled = enabled]

FromRule(order) == ActionRow(order, "ADD_ROLE", [NoConfig EXCEPT !.from_rule = TRUE])

Always == [k \in {} |-> ""]

\* a trigger_config of two keys
Filter2(k1, v1, k2, v2) == [k \in {k1, k2} |-> IF k = k1 THEN v1 ELSE v2]

\* automations on every trigger type, enabled or all disabled
EveryTrigger(enabled) ==
    { Automation(1, "MEMBER_JOIN", Always, enabled, {Marked(1, 1, TRUE), FromRule(2)}),
      Automation(2, "MEMBER_LEAVE", Always, enabled, {Marked(2, 1, TRUE)}),
      Automation(3, "COMMAND", Named("rules"), enabled, {Marked(3, 1, TRUE)}),
      Automation(4, "FORM_SUBMIT", Always, enabled,
        {Marked(4, 1, TRUE), ActionRow(2, "ADD_ROLE", [NoConfig EXCEPT !.from_form = TRUE])}),
      Automation(5, "REACTION", [k \in {"emoji"} |-> "thumbs_up"], enabled, {Marked(5, 1, TRUE)}) }

\* actions that name nothing the interpreter can resolve: a type it does not
\* interpret, a channel and a role that do not exist, a template nobody defined
Unresolved ==
    { ActionRow(1, "EDIT_MESSAGE", NoConfig),
      ActionRow(2, "SEND_MESSAGE", [NoConfig EXCEPT !.channel = NameRef("nowhere"),
                                                    !.content = "hello"]),
      ActionRow(3, "ADD_ROLE", [NoConfig EXCEPT !.role = NameRef("Nobody")]),
      ActionRow(4, "SEND_DM", [NoConfig EXCEPT !.template = "NO_SUCH_TEMPLATE"]),
      ActionRow(5, "SET_PERMS", [NoConfig EXCEPT !.channel = NameRef("nowhere")]),
      ActionRow(6, "SEND_MESSAGE", [NoConfig EXCEPT !.channel = BounceRef,
                                                    !.template = "NO_SUCH_TEMPLATE"]) }

UnknownEmbed ==
    ActionRow(1, "SEND_EMBED", [NoConfig EXCEPT !.channel = BounceRef,
                                                !.template = "NO_SUCH_TEMPLATE"])

\* automations filtered on an invite code, on two keys at once, and on a key
\* that events of their trigger type do not carry
Filtered ==
    { Automation(1, "MEMBER_JOIN", Filter2("mode", "AUTO", "invite_code", "abc"), TRUE,
            {Marked(1, 1, TRUE)}),
      Automation(2, "MEMBER_JOIN", [k \in {"invite_code"} |-> "zzz"], TRUE, {Marked(2, 1, TRUE)}),
      Automation(3, "COMMAND", Filter2("name", "rules", "mode", "APPROVAL"), TRUE,
            {Marked(3, 1, TRUE)}),
      Automation(4, "REACTION", Filter2("emoji", "thumbs_up", "invite_code", "abc"), TRUE,
            {Marked(4, 1, TRUE)}),
      Automation(5, "MEMBER_JOIN", [k \in {"emoji"} |-> "thumbs_up"], TRUE, {Marked(5, 1, TRUE)}),
      Automation(6, "MEMBER_JOIN", Always, TRUE, {Marked(6, 1, TRUE)}) }

\* SEND_MESSAGE to each kind of channel reference, with literal content, with
\* no content and with a template
Messages ==
    { Automation(1, "MEMBER_JOIN", Always, TRUE,
        { ActionRow(1, "SEND_MESSAGE", [NoConfig EXCEPT !.channel = BounceRef,
                                                        !.content = "to bounce"]),
          ActionRow(2, "SEND_MESSAGE", [NoConfig EXCEPT !.channel = PendingRef,
                                                        !.content = "to pending"]),
          ActionRow(3, "SEND_MESSAGE", [NoConfig EXCEPT !.channel = LiteralRef(77),
                                                        !.content = "to 77"]),
          ActionRow(4, "SEND_MESSAGE", [NoConfig EXCEPT !.channel = NameRef("nowhere"),
                                                        !.content = "to nowhere"]),
          ActionRow(5, "SEND_MESSAGE", [NoConfig EXCEPT !.channel = LiteralRef(78)]),
          ActionRow(6, "SEND_MESSAGE", [NoConfig EXCEPT !.content = "to default"]),
          ActionRow(7, "SEND_MESSAGE", [NoConfig EXCEPT !.channel = LiteralRef(79),
                                                        !.template = "JOIN_LOG_AUTO"]) }) }

\* what guild 1 may be set up with: the installed automations; automations
\* filtered on each mode and on none, with actions out of order and disabled;
\* an application embed for AUTO-mode joins; every trigger type, enabled and
\* disabled; a failing action between two others; unresolvable actions
EngineSetups ==
    { DefaultAutomations(1),
      { Automation(1, "MEMBER_JOIN", Mode("AUTO"), TRUE,
            {Marked(1, 2, TRUE), Marked(1, 1, TRUE), FromRule(3)}),
        Automation(2, "MEMBER_JOIN", Mode("APPROVAL"), TRUE,
            {Marked(2, 3, TRUE), Marked(2, 2, FALSE), Marked(2, 1, TRUE)}),
        Automation(3, "MEMBER_JOIN", Always, TRUE, {Marked(3, 1, TRUE), Marked(3, 2, TRUE)}) },
      { Automation(1, "MEMBER_JOIN", Mode("AUTO"), TRUE, {ApplicationEmbed(1, TRUE), FromRule(2)}) },
      EveryTrigger(TRUE),
      EveryTrigger(FALSE),
      { Automation(1, "MEMBER_JOIN", Always, TRUE,
            {Marked(1, 1, TRUE), BrokenDM(2), Marked(1, 3, TRUE)}),
        Automation(2, "MEMBER_JOIN", Always, TRUE, {Marked(2, 1, TRUE)}) },
      { Automation(1, "MEMBER_JOIN", Always, TRUE, Unresolved) },
      { Automation(1, "MEMBER_JOIN", Always, TRUE, {UnknownEmbed}) },
      Filtered,
      Messages }

\* events as process_event may be handed them: joins of guild 1, of guild 2 and
\* of a guild without settings, an event without member and invite, a command
\* and a reaction
EngineEvents ==
    {JoinEvent(1, 1, code) : code \in InviteCodes}
        \cup { JoinEvent(2, 1, "abc"), JoinEvent(3, 1, "abc"),
               EngineEvent(1, NULL, NoneStr, NoneStr, NoneStr),
               EngineEvent(1, 2, NoneStr, "rules", NoneStr),
               EngineEvent(1, 2, NoneStr, NoneStr, "thumbs_up") }

InitEngine ==
    /\ gs \in GuildTables
    /\ rules \in EngineRuleTables
    /\ roles = CachedRoles
    /\ channels = {}
    /\ apps = <<>>
    /\ nextId = 1
    /\ tokens = {}
    /\ last = NoCall
    /\ inflight = [w \in Workers |-> <<>>]
    /\ \E setup \in EngineSetups : autos = setup \cup DefaultAutomations(2)

\* process_event(trigger_type, event), as handle_member_join and the tests call it
EngineCall ==
    \E trigger_type \in TriggerTypes, event \in EngineEvents :
        \E out \in {FromEngine(process_event(trigger_type, event))} :
            Apply(trigger_type, event, out)

NextEngine ==
    \/ EngineCall
    \/ ApproveReaction

SpecEngine == InitEngine /\ [][NextEngine]_vars

\* the call was process_event (any trigger type) for a guild that has settings
EngineReturned(call) ==
    /\ call.op \in TriggerTypes /\ ~call.raised
    /\ call.event.guild_id \in DOMAIN gs

\* the enabled automations of the call's guild and trigger type whose filter
\* the event passes
Selected(call) ==
    {a \in autos :
        /\ a.guild = call.event.guild_id /\ a.trigger = call.op /\ a.enabled
        /\ "mode" \in DOMAIN a.trigger_config =>
                a.trigger_config["mode"] = gs[call.event.guild_id].mode
        /\ "invite_code" \in DOMAIN a.trigger_config =>
                a.trigger_config["invite_code"] = call.event.invite_code
        /\ "name" \in DOMAIN a.trigger_config =>
                a.trigger_config["name"] = call.event.command
        /\ "emoji" \in DOMAIN a.trigger_config =>
                a.trigger_config["emoji"] = call.event.emoji}

\* the enabled actions the call runs, as (automation name, order)
Ran(call) ==
    UNION { {<<a.name, x.order>> : x \in {y \in a.actions : y.enabled}} : a \in Selected(call) }

RanFromRule(call) ==
    UNION { {<<a.name, x.order>> :
                x \in {y \in a.actions : /\ y.enabled /\ y.action_type = "ADD_ROLE"
                                         /\ y.config.from_rule}}
                : a \in Selected(call) }

\* how many add_role effects of the call give role rid to user u in guild g
Grants(call, g, u, rid) ==
    Cardinality({i \in 1..Len(call.actions) :
                    /\ call.actions[i].type = "add_role" /\ call.actions[i].guild_id = g
                    /\ call.actions[i].user_id = u /\ call.actions[i].role_id = rid})

\* the code an event resolves rules with: 'unknown' when it carries no invite
CodeOf(event) == IF event.invite_code = NoneStr THEN "unknown" ELSE event.invite_code

\* C11: the roles given from invite rules (by every ADD_ROLE from_rule action
\* of an event, and by an approve) are those of the guild's rule with exactly
\* the invite code, else those of the guild's 'default' rule, else none; no
\* role of any other rule or of another guild's rule is given.  (No other
\* action of these automations names a role that a rule gives.)
C11_RuleResolution ==
    [][ /\ EngineReturned(last') =>
            \A rid \in MemberRoleIds, u \in UserIds, g \in GuildIds :
                Grants(last', g, u, rid) =
                    IF /\ g = last'.event.guild_id /\ u = last'.event.member_id
                       /\ rid \in ResolvedRoles(g, CodeOf(last'.event))
                    THEN Cardinality(RanFromRule(last')) ELSE 0
        /\ \A id \in DOMAIN apps :
            (ReactionOn(last', id, "approve_mark") /\ apps[id].status = "PENDING"
                /\ last'.event.guild_id \in DOMAIN gs) =>
                \A rid \in MemberRoleIds, u \in UserIds, g \in GuildIds :
                    Grants(last', g, u, rid) =
                        IF /\ g = last'.event.guild_id /\ u = apps[id].user_id
                           /\ rid \in ResolvedRoles(g, apps[id].invite_code)
                        THEN 1 ELSE 0
      ]_vars

\* a member joined guild 1 through "abc", a code only guild 2 has a rule for:
\* the AUTO automation gave the role of guild 1's default rule and no other
C11_Witness ==
    /\ EngineReturned(last) /\ last.op = "MEMBER_JOIN"
    /\ last.event.guild_id = 1 /\ last.event.invite_code = "abc"
    /\ Rule(2, "abc", {4}) \in rules /\ Rule(1, "default", {3}) \in rules
    /\ RanFromRule(last) # {}
    /\ Grants(last, 1, 1, 3) = 1
    /\ Grants(last, 1, 1, 4) = 0

\* the (automation name, order) a marked message comes from
IsMarker(effect) == effect.type = "send_message" /\ effect.content = Rendered("", "marker")

MarkerOf(effect) == <<effect.channel_id \div 10, effect.channel_id % 10>>

\* the markers of the call's effects, in the order of the effects
Markers(call) ==
    LET marked == SelectSeq(call.actions, IsMarker)
    IN [i \in 1..Len(marked) |-> MarkerOf(marked[i])]

\* automation a is filtered on a mode that is not the mode of its guild
OtherMode(a) ==
    "mode" \in DOMAIN a.trigger_config /\ a.trigger_config["mode"] # gs[a.guild].mode

JoinReturned(call) == EngineReturned(call) /\ call.op = "MEMBER_JOIN"

C13_AllDisabledNoEffects ==
    [][ ( /\ last'.op \in TriggerTypes
          /\ last'.event.guild_id \in DOMAIN gs
          /\ \A a \in autos : a.guild = last'.event.guild_id => ~a.enabled )
        => /\ ~last'.raised
           /\ last'.actions = <<>>
           /\ apps' = apps /\ nextId' = nextId
      ]_vars

\* a member joined guild 1 while its automations, one on every trigger type,
\* were all disabled, and nothing was returned; guild 2's are enabled
C13_Witness ==
    /\ last.op = "MEMBER_JOIN" /\ last.event.guild_id = 1 /\ last.event.member_id = 1
    /\ {a \in autos : a.guild = 1} = EveryTrigger(FALSE)
    /\ \E a \in autos : a.guild = 2 /\ a.enabled
    /\ last.actions = <<>> /\ ~last.raised


-----------------------------------------------------------------------------
(* Properties of the invite-rule commands *)

\* the role sets listrules shows for an invite code of a guild, given the rule rows
RulesShown(ruleRows, g, code) ==
    {r.roles : r \in {x \in ruleRows : x.guild = g /\ x.invite_code = code}}

\* the ids of the guild's roles that the addrule call names
RolesNamed(event) ==
    LET names == SplitNames(event.args[2])
    IN {r.id : r \in UNION {GuildRoleNamed(event.guild_roles, names[i]) : i \in DOMAIN names}}

\* the call is a rule command on this code of this guild that succeeded
RuleCommandDone(call, name, g, code) ==
    /\ call.op = name /\ call.event.guild_id = g
    /\ Len(call.event.args) >= 1 /\ call.event.args[1] = code
    /\ Replied(call, "COMMAND_SUCCESS")

\* C14: after a successful addrule X, the rule listing has X with exactly the
\* roles named; after a successful delrule X it has no X; every other call
\* (rule commands on other codes included) leaves X's entry as it was; and
\* listrules shows exactly the guild's rule rows.
C14_RuleListingFollowsCommands ==
    [][ /\ \A g \in GuildIds, code \in InviteCodes \cup {"default"} :
            /\ RuleCommandDone(last', "addrule", g, code)
                    => RulesShown(rules', g, code) = {RolesNamed(last'.event)}
            /\ RuleCommandDone(last', "delrule", g, code)
                    => RulesShown(rules', g, code) = {}
            /\ ~(RuleCommandDone(last', "addrule", g, code) \/ RuleCommandDone(last', "delrule", g, code))
                    => RulesShown(rules', g, code) = RulesShown(rules, g, code)
        /\ (last'.op = "listrules" /\ last'.event.guild_id \in DOMAIN gs)
                => LET shown == {[code |-> r.invite_code, roles |-> r.roles] :
                                    r \in {x \in rules : x.guild = last'.event.guild_id}}
                   IN IF shown = {} THEN Replied(last', "LISTRULES_EMPTY")
                      ELSE /\ Len(last'.actions) = 1
                           /\ last'.actions[1].type = "send_embed"
                           /\ last'.actions[1].items = shown
      ]_vars

\* listrules has just shown the rule added for 'zzz' with the one role named,
\* the untouched 'default' rule, and no 'abc' rule after its deletion
C14_Witness ==
    /\ last.op = "listrules" /\ last.event.guild_id = 1
    /\ Len(last.actions) = 1 /\ last.actions[1].type = "send_embed"
    /\ last.actions[1].items = {[code |-> "zzz", roles |-> {4}], [code |-> "default", roles |-> {3}]}


\* the marked actions the call runs: enabled marked messages of the automations
\* the event selects
RanMarked(call) ==
    UNION { {<<a.name, x.order>> : x \in {y \in a.actions : y = Marked(a.name, y.order, TRUE)}}
                : a \in Selected(call) }

\* C15: in process_event an error raised while interpreting one action drops
\* only that action's effects: the call does not raise, and the effect of every
\* other enabled action of the same automation and of every other selected
\* automation is returned.
C15_FailureDropsOneAction ==
    [][ (last'.op \in TriggerTypes /\ last'.event.guild_id \in DOMAIN gs)
            => /\ ~last'.raised
               /\ \A m \in RanMarked(last') :
                    \E i \in 1..Len(Markers(last')) : Markers(last')[i] = m
      ]_vars


\* the enabled actions the call interprets
RanActions(call) == UNION { {x \in a.actions : x.enabled} : a \in Selected(call) }

\* the action cannot be resolved in guild g: its type is not one the
\* interpreter knows, or it names a channel, a role or a template that does
\* not resolve
Unresolvable(action, g) ==
    LET c == action.config
    IN \/ action.action_type \notin {"SEND_MESSAGE", "SEND_DM", "SEND_EMBED", "ADD_ROLE",
                                     "REMOVE_ROLE", "SET_TOPIC", "SET_PERMS", "CLEANUP"}
       \/ c.channel.sym # "absent" /\ resolve_channel(g, c.channel) = NULL
       \/ c.role.sym # "absent" /\ c.role_id = NULL /\ resolve_role_id(g, c) = NULL
       \/ c.template \notin {"", "application"} /\ TemplateOutcome(c.template) = "empty"

\* C16: interpreting an action whose type is unknown, or which refers to a
\* channel, role or template that cannot be resolved, returns no effect and
\* raises nothing: a call that runs only such actions returns the empty list.
C16_UnresolvableReturnsNothing ==
    [][ ( /\ last'.op \in TriggerTypes /\ last'.event.guild_id \in DOMAIN gs
          /\ RanActions(last') # {}
          /\ \A x \in RanActions(last') : Unresolvable(x, last'.event.guild_id) )
        => ~last'.raised /\ last'.actions = <<>>
      ]_vars


-----------------------------------------------------------------------------
(* Properties of the command router *)

\* C17: a built-in command never raises to the caller of handle_command, and a
\* failure (bad arguments, missing permission, missing entity) is returned as
\* exactly one effect, the reply carrying the error message.
C17_BuiltinFailureIsOneReply ==
    [][ last'.op \in BuiltinNames
            => /\ ~last'.raised
               /\ Replied(last', "COMMAND_ERROR") =>
                    /\ Len(last'.actions) = 1
                    /\ last'.actions[1].content.message # ""
      ]_vars


\* the enabled custom COMMAND automations of the call's guild named like its command
CustomsNamed(call) ==
    {a \in autos : /\ a.guild = call.event.guild_id /\ a.trigger = "COMMAND" /\ a.enabled
                   /\ "name" \in DOMAIN a.trigger_config
                   /\ a.trigger_config["name"] = call.event.command}

\* the messages the custom commands of the set-up send
CustomMessage(effect) ==
    /\ effect.type = "send_message"
    /\ effect.content.message \in {"Announcement", "Read the rules", "Custom help", "Old command"}

\* the call is a command sent in a configured guild
GuildCommand(call) ==
    /\ call.op \notin {"none", "join", "leave", "reaction", "form", "track", "getaccess"}
    /\ call.event.guild_id \in DOMAIN gs

\* C18: the built-in table is checked first.  A command named like a built-in
\* returns nothing of a custom automation, even when an enabled custom
\* automation has that name; a command that is not a built-in and names an
\* enabled custom automation returns that automation's effects (or the refusal
\* when the automation is for administrators and the author is not one).
C18_BuiltinsFirst ==
    [][ GuildCommand(last') =>
            /\ last'.op \in BuiltinNames => ~Some(last', CustomMessage)
            /\ last'.op = "help" => last'.actions = <<Reply(Rendered("HELP_MESSAGE", ""))>>
            /\ (last'.op \notin BuiltinNames /\ CustomsNamed(last') # {}) =>
                    \E a \in CustomsNamed(last') :
                        IF a.admin_only /\ ~IsAdmin(last'.event.guild_id, last'.event)
                        THEN last'.actions = <<AdminRequiredReply>>
                        ELSE /\ Len(last'.actions) = 1 /\ CustomMessage(last'.actions[1])
                             /\ \E x \in a.actions :
                                    last'.actions[1].content.message = x.config.content
      ]_vars

\* 'help' was sent where an enabled custom command is also named 'help', and
\* the built-in help text alone came back
C18_Witness ==
    /\ GuildCommand(last) /\ last.op = "help"
    /\ \E a \in CustomsNamed(last) : \E x \in a.actions : x.config.content = "Custom help"
    /\ last.actions = <<Reply(Rendered("HELP_MESSAGE", ""))>>


\* the names of the guild's enabled custom commands
EnabledCustomNames(g) ==
    {a.trigger_config["name"] :
        a \in {x \in autos : /\ x.guild = g /\ x.trigger = "COMMAND" /\ x.enabled
                             /\ "name" \in DOMAIN x.trigger_config}}

\* C19: a guild command that names neither a built-in nor an enabled custom
\* COMMAND automation returns exactly one effect, the 'not found' reply for
\* that command, listing the built-in names together with the names of the
\* guild's enabled custom commands, and changes no table.
C19_NotFoundListsCommands ==
    [][ ( /\ GuildCommand(last')
          /\ last'.op \notin BuiltinNames
          /\ CustomsNamed(last') = {} )
        => /\ ~last'.raised
           /\ last'.actions =
                << [Reply(Rendered("COMMAND_NOT_FOUND", last'.op)) EXCEPT
                        !.items = {"help", "addrule", "delrule", "listrules", "setmode",
                                   "listfields", "reload", "approve", "reject", "cleanup",
                                   "cleanall", "auto-translate"}
                                  \cup EnabledCustomNames(last'.event.guild_id)] >>
           /\ UNCHANGED <<gs, roles, channels, rules, apps, nextId, autos, tokens>>
      ]_vars

\* the name of a disabled custom command was sent after an administrator had
\* changed rules: the reply lists the built-ins and the three enabled custom
\* commands, not the disabled one
C19_Witness ==
    /\ GuildCommand(last) /\ last.op = "old"
    /\ Rule(1, "abc", {3, 4}) \notin rules
    /\ Len(last.actions) = 1
    /\ last.actions[1].content = Rendered("COMMAND_NOT_FOUND", "old")
    /\ {"help", "approve", "announce", "rules"} \subseteq last.actions[1].items
    /\ "old" \notin last.actions[1].items
    /\ Cardinality(last.actions[1].items) = 14


-----------------------------------------------------------------------------
(* The order of the effects of process_event *)

\* the enabled ADD_ROLE actions the call runs, as (automation name, order)
Adders(call) ==
    UNION { {<<a.name, x.order>> : x \in {y \in a.actions : y.enabled /\ y.action_type = "ADD_ROLE"}}
                : a \in Selected(call) }

\* the action an effect of the call comes from, as (automation name, order),
\* where the effect tells: a marked message, or an add_role when one action
\* only gives roles; <<0, 0>> otherwise
SourceOf(call, i) ==
    LET e == call.actions[i]
    IN IF IsMarker(e) THEN MarkerOf(e)
       ELSE IF e.type = "add_role" /\ Cardinality(Adders(call)) = 1
       THEN CHOOSE s \in Adders(call) : TRUE
       ELSE <<0, 0>>

\* C20: the effects returned by process_event are in automation-then-action
\* order: the effects of one automation are contiguous, within an automation
\* the effects of an action with a smaller order come before those of an action
\* with a larger order, every effect comes from an enabled action of a selected
\* automation, and no effect of such an action is missing.
C20_AutomationThenActionOrder ==
    [][ EngineReturned(last') =>
            LET n == Len(last'.actions)
                known == {i \in 1..n : SourceOf(last', i) # <<0, 0>>}
            IN /\ \A i, j \in known :
                    (i < j /\ SourceOf(last', i)[1] = SourceOf(last', j)[1]) =>
                        /\ SourceOf(last', i)[2] <= SourceOf(last', j)[2]
                        /\ \A k \in known :
                                (i < k /\ k < j) => SourceOf(last', k)[1] = SourceOf(last', i)[1]
               /\ \A i \in known : SourceOf(last', i) \in Ran(last')
               /\ \A m \in RanMarked(last') :
                    Cardinality({i \in known : SourceOf(last', i) = m}) = 1
      ]_vars

\* a member joined an AUTO-mode guild through a code whose rule gives two
\* roles: the two messages of the first automation (stored with orders 2, 1)
\* came back in order 1, 2, then its two add_role effects (order 3), then the
\* two messages of the unfiltered automation
C20_Witness ==
    /\ EngineReturned(last) /\ last.op = "MEMBER_JOIN"
    /\ Markers(last) = << <<1, 1>>, <<1, 2>>, <<3, 1>>, <<3, 2>> >>
    /\ Len(last.actions) = 6
    /\ [i \in 1..6 |-> SourceOf(last, i)] =
            << <<1, 1>>, <<1, 2>>, <<1, 3>>, <<1, 3>>, <<3, 1>>, <<3, 2>> >>


-----------------------------------------------------------------------------
(* Two reaction handlers at once.  handle_reaction reads the application    *)
(* (one query) and then reviews the instance it read (further queries and   *)
(* the final delete or save); nothing holds the row in between, so another  *)
(* worker's call can run between the two steps.  A worker that has returned *)
(* keeps its effects until the bot has executed them.                        *)

\* handle_reaction up to the instance being loaded: the worker now holds it
ReactionLoad ==
    \E w \in Workers, id \in DOMAIN apps, emoji \in {"approve_mark", "reject_mark"} :
        /\ inflight[w] = <<>>
        /\ PendingById(apps, id) # {}
        /\ apps[id].guild \in DOMAIN gs
        /\ inflight' = [inflight EXCEPT ![w] =
                <<[phase |-> "loaded", event |-> ReactionEvent(apps[id].guild, id, emoji),
                   application |-> apps[id], actions |-> <<>>]>>]
        /\ UNCHANGED <<gs, roles, channels, rules, apps, nextId, autos, tokens, last>>

\* the rest of handle_reaction on the instance the worker holds
ReactionReview ==
    \E w \in Workers :
        /\ inflight[w] # <<>> /\ inflight[w][1].phase = "loaded"
        /\ LET held == inflight[w][1]
               g == held.event.guild_id
               r == IF held.event.emoji = "approve_mark"
                    THEN approve_user(apps, g, held.application, held.event.admin,
                                      held.event, <<>>, <<>>)
                    ELSE reject_user(apps, g, held.application, held.event.admin,
                                     held.event, "Rejected via reaction")
           IN /\ apps' = r.apps
              /\ last' = [op |-> "reaction", event |-> held.event, actions |-> r.actions,
                          raised |-> FALSE]
              /\ inflight' = [inflight EXCEPT ![w] =
                                <<[held EXCEPT !.phase = "returned", !.actions = r.actions]>>]
        /\ UNCHANGED <<gs, roles, channels, rules, nextId, autos, tokens>>

\* the bot has executed the effects the worker returned
ReactionExecuted ==
    \E w \in Workers :
        /\ inflight[w] # <<>> /\ inflight[w][1].phase = "returned"
        /\ inflight' = [inflight EXCEPT ![w] = <<>>]
        /\ UNCHANGED <<gs, roles, channels, rules, apps, nextId, autos, tokens, last>>

\* the posts of the form that pass validation
RacePosts == {p \in FormPosts : p.responses[1] = <<Num(3)>>}

\* form_view (POST) in the web process up to the application being loaded and
\* the posted values validated: the request now holds the instance (the web
\* server has one synchronous worker, so one request at a time)
FormLoad ==
    \E w \in Workers, event \in RacePosts :
        /\ inflight[w] = <<>>
        /\ \A v \in Workers : inflight[v] # <<>> => inflight[v][1].phase # "posted"
        /\ event.guild_id \in DOMAIN gs
        /\ FormLookup(apps, event.guild_id, event.user_id) = "one"
        /\ LET application == apps[CHOOSE i \in PendingOf(apps, event.guild_id, event.user_id) : TRUE]
           IN /\ application.responses = EmptyResponses
              /\ FieldsOf(event.guild_id) # {}
              /\ MissingRequired(event.guild_id, event.responses) = {}
              /\ inflight' = [inflight EXCEPT ![w] =
                      <<[phase |-> "posted", event |-> event, application |-> application,
                         actions |-> <<>>]>>]
        /\ UNCHANGED <<gs, roles, channels, rules, apps, nextId, autos, tokens, last>>

\* the rest of form_view: application.responses = responses; application.save()
FormSave ==
    \E w \in Workers :
        /\ inflight[w] # <<>> /\ inflight[w][1].phase = "posted"
        /\ LET held == inflight[w][1]
           IN /\ apps' = SaveRow(apps, [held.application EXCEPT !.responses = held.event.responses])
              /\ last' = [op |-> "form", event |-> held.event, actions |-> <<>>, raised |-> FALSE]
        /\ inflight' = [inflight EXCEPT ![w] = <<>>]
        /\ UNCHANGED <<gs, roles, channels, rules, nextId, autos, tokens>>

InitRace ==
    /\ InitTables
    /\ gs[1] = GuildRow("APPROVAL", 6, 8, 9)
    /\ autos = UNION {DefaultAutomations(g) : g \in GuildIds}

NextRace ==
    \/ MemberJoin
    \/ ReactionLoad
    \/ ReactionReview
    \/ ReactionExecuted
    \/ FormLoad
    \/ FormSave

SpecRace == InitRace /\ [][NextRace]_vars

\* worker w has just finished an approve of the instance it held
ApproveFinished(w) ==
    /\ inflight[w] # <<>> /\ inflight[w][1].phase = "loaded"
    /\ inflight[w][1].event.emoji = "approve_mark"
    /\ inflight'[w] # <<>> /\ inflight'[w][1].phase = "returned"

\* C21: approves of one application are not mutually exclusive.  A worker
\* that loaded the PENDING row returns the approval effects for its user (the
\* pending role removed, every role of the resolved rule added) and leaves no
\* row with that id, whether or not another worker deleted the row after the
\* load: nothing makes the second approve return without effects.
C21_ApprovesNotExclusive ==
    [][ \A w \in Workers :
            ApproveFinished(w) =>
                LET held == inflight[w][1]
                    g == held.event.guild_id
                    u == held.application.user_id
                IN /\ \A rid \in ResolvedRoles(g, held.application.invite_code) :
                        Grants(last', g, u, rid) = 1
                   /\ Some(last', LAMBDA e : e.type = "remove_role" /\ e.user_id = u
                                             /\ e.role_id = gs[g].pending_role_id)
                   /\ held.application.id \notin DOMAIN apps'
      ]_vars

\* both workers loaded the same PENDING application and both have returned the
\* role effects for its user
C21_Witness ==
    /\ \A w \in Workers :
        /\ inflight[w] # <<>> /\ inflight[w][1].phase = "returned"
        /\ inflight[w][1].event.emoji = "approve_mark"
        /\ inflight[w][1].application.id = 1
        /\ \E i \in 1..Len(inflight[w][1].actions) :
                /\ inflight[w][1].actions[i].type = "add_role"
                /\ inflight[w][1].actions[i].user_id = inflight[w][1].application.user_id
    /\ 1 \notin DOMAIN apps


-----------------------------------------------------------------------------
(* Properties of the review commands *)

\* the call is an approve by an administrator that mentions a role and no user
BulkCall(call) ==
    /\ call.op = "approve" /\ call.event.guild_id \in DOMAIN gs
    /\ IsAdmin(call.event.guild_id, call.event)
    /\ call.event.user_mentions = <<>> /\ call.event.role_mentions # <<>>

\* how many effects of the call of this type are for user u
EffectsFor(call, type, u) ==
    Cardinality({i \in 1..Len(call.actions) :
                    call.actions[i].type = type /\ call.actions[i].user_id = u})

\* C22: an approve that mentions a role and no user runs the single-user
\* approve once for each member listed as holding the role (one approval DM
\* each, and one removal of the guild's pending role when it has one), leaves
\* none of them with a
\* PENDING application in the guild, and ends with one reply that reports as
\* many approved as members were listed.
C22_BulkApprovesEveryMember ==
    [][ BulkCall(last') =>
            LET g == last'.event.guild_id
                listed == last'.event.members_with_role
                n == Len(last'.actions)
            IN /\ ~last'.raised
               /\ \A i \in 1..Len(listed) :
                    /\ PendingOf(apps', g, listed[i]) = {}
                    /\ EffectsFor(last', "send_dm", listed[i]) = 1
                    /\ EffectsFor(last', "remove_role", listed[i]) =
                            IF gs[g].pending_role_id # NULL THEN 1 ELSE 0
               /\ n >= 1
               /\ last'.actions[n].type = "reply"
               /\ last'.actions[n].content.tpl = "BULK_APPROVE_RESULT"
               /\ last'.actions[n].count = Len(listed)
      ]_vars


\* the call is a reject by an administrator that mentions a user
RejectCall(call) ==
    /\ call.op = "reject" /\ call.event.guild_id \in DOMAIN gs
    /\ IsAdmin(call.event.guild_id, call.event)
    /\ Len(call.event.args) >= 1 /\ call.event.user_mentions # <<>>

\* C23: a reject by an administrator for a user who has no PENDING application
\* in the guild returns one effect, the error reply saying that there is no
\* pending application (so no role, DM or channel effect), and creates or
\* changes no application.
C23_RejectWithoutPending ==
    [][ ( /\ RejectCall(last')
          /\ PendingOf(apps, last'.event.guild_id, Target(last')) = {} )
        => /\ ~last'.raised
           /\ last'.actions = <<Reply(Rendered("COMMAND_ERROR", "NO_PENDING_APP"))>>
           /\ UNCHANGED <<gs, roles, channels, rules, apps, nextId, autos, tokens>>
      ]_vars

\* an administrator rejected a member whose only application had already been
\* rejected or cancelled: the error reply came back and the row is as it was
C23_Witness ==
    /\ RejectCall(last)
    /\ last.actions = <<Reply(Rendered("COMMAND_ERROR", "NO_PENDING_APP"))>>
    /\ \E id \in DOMAIN apps :
        /\ apps[id].guild = last.event.guild_id /\ apps[id].user_id = Target(last)
        /\ apps[id].status = "REJECTED" /\ apps[id].reviewed_by = NULL


\* the reaction of the call is one handle_reaction ignores in the state it is
\* handled in: another emoji, no application id, or an id with no PENDING row
IgnoredReaction(call, rows) ==
    /\ call.op = "reaction"
    /\ \/ call.event.emoji \notin {"approve_mark", "reject_mark"}
       \/ call.event.application_id = NULL
       \/ call.event.application_id \notin DOMAIN rows
       \/ rows[call.event.application_id].status # "PENDING"

\* C24: handle_reaction returns no effect and changes no application (nor any
\* other table) when the emoji is neither the check mark nor the cross mark,
\* when the event carries no application id, or when the application does not
\* exist or is not PENDING (rejected, cancelled by a leave, deleted by approve).
C24_IgnoredReactionsDoNothing ==
    [][ IgnoredReaction(last', apps)
            => /\ ~last'.raised
               /\ last'.actions = <<>>
               /\ UNCHANGED <<gs, roles, channels, rules, apps, nextId, autos, tokens>>
      ]_vars

\* a check mark was put on the message of an application that was cancelled
\* when its member left: nothing came back and the row is still REJECTED
C24_Witness ==
    /\ last.op = "reaction" /\ last.event.emoji = "approve_mark"
    /\ last.event.application_id \in DOMAIN apps
    /\ apps[last.event.application_id].status = "REJECTED"
    /\ apps[last.event.application_id].reviewed_by = NULL
    /\ last.actions = <<>>


\* the mode a setmode argument names, in any letter case; "" for any other text
ModeNamed(arg) ==
    IF arg \in {"auto", "Auto", "AUTO"} THEN "AUTO"
    ELSE IF arg \in {"approval", "Approval", "APPROVAL"} THEN "APPROVAL"
    ELSE ""

\* the call is a setmode by an administrator of a configured guild
SetmodeCall(call) ==
    /\ call.op = "setmode" /\ call.event.guild_id \in DOMAIN gs
    /\ IsAdmin(call.event.guild_id, call.event)

\* C25: the mode of every guild is always AUTO or APPROVAL.  A setmode by an
\* administrator whose argument is AUTO or APPROVAL in any letter case sets the
\* guild's mode to exactly that value (and no other guild's); with no argument
\* or any other argument it returns one error reply and leaves the mode as it was.
C25_ModeIsAutoOrApproval ==
    /\ [](\A g \in DOMAIN gs : gs[g].mode \in {"AUTO", "APPROVAL"})
    /\ [][ SetmodeCall(last') =>
            LET g == last'.event.guild_id
                named == IF last'.event.args = <<>> THEN "" ELSE ModeNamed(last'.event.args[1])
            IN /\ named # "" =>
                    /\ gs'[g].mode = named
                    /\ Replied(last', "COMMAND_SUCCESS")
               /\ named = "" =>
                    /\ gs' = gs
                    /\ Len(last'.actions) = 1 /\ Replied(last', "COMMAND_ERROR")
               /\ \A h \in DOMAIN gs \ {g} : gs'[h] = gs[h]
         ]_vars

\* an administrator, after setting a language, typed the mode in lower case
\* and the guild is in AUTO
C25_Witness ==
    /\ SetmodeCall(last) /\ last.event.args = <<"auto">>
    /\ gs[1].mode = "AUTO"
    /\ Replied(last, "COMMAND_SUCCESS")
    /\ gs[1].language = "fr"


\* the call is a command (any handle_command call)
CommandCall(call) == call.op \notin {"none", "join", "leave", "reaction", "form", "track"}

\* C26: getaccess is for direct messages only and is handled before the guild
\* is looked up: sent with a guild id (whether or not the guild is configured)
\* it returns one reply, the DM-only warning, and creates no access token;
\* every other command sent without a guild id returns one reply, the
\* server-only warning, and runs no handler (no table changes).
C26_GetaccessDMOnly ==
    [][ CommandCall(last') =>
            /\ (last'.op = "getaccess" /\ last'.event.guild_id # NULL) =>
                    /\ last'.actions = <<Reply(Rendered("DM_ONLY_WARNING", ""))>>
                    /\ ~last'.raised
                    /\ UNCHANGED <<gs, roles, channels, rules, apps, nextId, autos, tokens>>
            /\ (last'.op # "getaccess" /\ last'.event.guild_id = NULL) =>
                    /\ last'.actions = <<Reply(Rendered("SERVER_ONLY_WARNING", ""))>>
                    /\ ~last'.raised
                    /\ UNCHANGED <<gs, roles, channels, rules, apps, nextId, autos, tokens>>
      ]_vars

\* getaccess was sent in a guild by an administrator who could have had a
\* token in a direct message: the warning came back and no token exists
C26_Witness ==
    /\ last.op = "getaccess" /\ last.event.guild_id = 1
    /\ last.event.admin_guilds = <<1>>
    /\ last.actions = <<Reply(Rendered("DM_ONLY_WARNING", ""))>>
    /\ tokens = {}
    /\ gs[1].language = "fr"


\* the call is a cleanup or cleanall by an administrator, sent from a channel
CleanupCall(call) ==
    /\ call.op \in {"cleanup", "cleanall"} /\ call.event.guild_id \in DOMAIN gs
    /\ IsAdmin(call.event.guild_id, call.event)
    /\ call.event.channel_id # NULL

\* C27: cleanup and cleanall by an administrator return two effects: a
\* cleanup_channel for the channel the command was sent in (whether or not it
\* is the guild's bounce channel), with count 50 for cleanup and 999 for
\* cleanall, and then a reply; no table changes.
C27_CleanupInCallingChannel ==
    [][ CleanupCall(last') =>
            /\ ~last'.raised
            /\ Len(last'.actions) = 2
            /\ last'.actions[1].type = "cleanup_channel"
            /\ last'.actions[1].channel_id = last'.event.channel_id
            /\ last'.actions[1].guild_id = last'.event.guild_id
            /\ last'.actions[1].count = IF last'.op = "cleanup" THEN 50 ELSE 999
            /\ last'.actions[2].type = "reply"
            /\ last'.actions[2].content.tpl =
                    IF last'.op = "cleanup" THEN "CLEANUP_REPLY" ELSE "CLEANALL_REPLY"
            /\ UNCHANGED <<gs, roles, channels, rules, apps, nextId, autos, tokens>>
      ]_vars

\* cleanall was sent from channel 7 in a guild whose bounce channel is 8: the
\* effect is for channel 7
C27_Witness ==
    /\ CleanupCall(last) /\ last.op = "cleanall"
    /\ last.event.channel_id = 7 /\ gs[1].bounce_channel_id = 8
    /\ Len(last.actions) = 2
    /\ last.actions[1].channel_id = 7 /\ last.actions[1].count = 999


-----------------------------------------------------------------------------
(* C28: reload and the cache rows *)

\* the call is a reload by an administrator of a configured guild that returned
ReloadCall(call) ==
    /\ call.op = "reload" /\ call.event.guild_id \in DOMAIN gs
    /\ IsAdmin(call.event.guild_id, call.event)
    /\ ~call.raised

\* the cache rows of guild g with platform id i
RowsOf(rows, g, i) == {x \in rows : x.guild = g /\ x.discord_id = i}

\* every listed entry has exactly one cache row of guild g, under the listed name
ListedOnce(rows, g, listed) ==
    \A i \in 1..Len(listed) :
        RowsOf(rows, g, listed[i].id) =
            {[guild |-> g, discord_id |-> listed[i].id, name |-> listed[i].name]}

\* C28: a reload by an administrator leaves exactly one cache row per (guild,
\* platform id) for every role and channel listed in the event, carrying the
\* listed name; and a reload that directly follows the same reload changes no
\* role row, channel row or application (nothing is created the second time).
C28_ReloadIdempotent ==
    [][ReloadCall(last') =>
          /\ ListedOnce(roles', last'.event.guild_id, last'.event.guild_roles)
          /\ ListedOnce(channels', last'.event.guild_id, last'.event.guild_channels)
          /\ (ReloadCall(last) /\ last.event = last'.event) =>
                (roles' = roles /\ channels' = channels /\ apps' = apps /\ nextId' = nextId)
       ]_vars

\* a reload in APPROVAL mode has renamed the cached role 6, added role 4 and
\* channel 8, and created the application of the listed member
C28_Witness ==
    /\ ReloadCall(last)
    /\ RowsOf(roles, 1, 6) = {[guild |-> 1, discord_id |-> 6, name |-> "Waiting"]}
    /\ RowsOf(roles, 1, 4) = {[guild |-> 1, discord_id |-> 4, name |-> "VIP"]}
    /\ RowsOf(channels, 1, 8) = {[guild |-> 1, discord_id |-> 8, name |-> "bounce"]}
    /\ \E i \in DOMAIN apps : apps[i].invite_code = "reload" /\ apps[i].user_id = 1


-----------------------------------------------------------------------------
(* C29: the trigger filter *)

\* the automations that have an enabled marker action
WithMarker(S) ==
    {a \in S : \E x \in a.actions :
        /\ x.enabled /\ x.action_type = "SEND_MESSAGE" /\ x.config.content = "marker"}

\* the automations the markers of the call's effects come from
MarkedBy(call) == {m[1] : m \in Range(Markers(call))}

\* C29: an enabled automation of the event's trigger type runs (matches the
\* event) if and only if every key of its trigger_config among mode,
\* invite_code, name and emoji equals, in that order, the guild's stored mode,
\* the event's invite code, the command name and the reaction emoji; an empty
\* config matches every event.  Observed on the markers of the call's effects.
C29_MatchesIffEveryKeyEqual ==
    [][EngineReturned(last') =>
          MarkedBy(last') = {a.name : a \in WithMarker(Selected(last'))}]_vars

\* a join of AUTO-mode guild 1 through "abc" ran the automation filtered on
\* {mode AUTO, invite_code abc} and the unfiltered one, and neither the one
\* filtered on invite code "zzz" nor the one filtered on an emoji
C29_Witness ==
    /\ EngineReturned(last) /\ last.op = "MEMBER_JOIN"
    /\ last.event.guild_id = 1 /\ last.event.invite_code = "abc"
    /\ gs[1].mode = "AUTO"
    /\ \E a \in autos : a.guild = 1 /\ a.name = 2 /\ DOMAIN a.trigger_config = {"invite_code"}
    /\ MarkedBy(last) = {1, 6}


-----------------------------------------------------------------------------
(* C30: the tracked message after a review *)

\* execute_action('send_embed_tracked'): the executor posts the embed of the
\* join that has just returned and stores the id of the posted message on the
\* application the effect names
TrackMessage ==
    \E id \in DOMAIN apps :
        /\ last.op = "join" /\ ~last.raised
        /\ \E i \in 1..Len(last.actions) :
              /\ last.actions[i].type = "send_embed_tracked"
              /\ last.actions[i].application_id = id
              /\ last.actions[i].channel_id # NULL
        /\ apps' = [apps EXCEPT ![id].message_id = MessageOf(id)]
        /\ last' = [op |-> "track", event |-> [guild_id |-> apps[id].guild, application_id |-> id],
                    actions |-> <<>>, raised |-> FALSE]
        /\ UNCHANGED <<gs, roles, channels, rules, nextId, autos, tokens, inflight>>

\* approve and reject commands for one user, with and without a reason
SingleReviews ==
    {ApproveEvent(m[1], m[2], Admin) : m \in Members}
        \cup {RejectEvent(m[1], m[2], args, Admin) :
                m \in Members, args \in {<<"@user">>, <<"@user", "spam">>}}

SingleReview == Command(SingleReviews)

NextReview ==
    \/ MemberJoin
    \/ TrackMessage
    \/ Reaction
    \/ SingleReview

SpecReview == Init /\ [][NextReview]_vars

\* the call approved or rejected one application
IsApprove(call) ==
    \/ call.op = "reaction" /\ call.event.emoji = "approve_mark" /\ call.actions # <<>>
    \/ ApproveConfirmed(call)

IsReject(call) ==
    \/ call.op = "reaction" /\ call.event.emoji = "reject_mark" /\ call.actions # <<>>
    \/ RejectConfirmed(call)

\* the positions of the call's edit_message effects
Edits(call) == {i \in 1..Len(call.actions) : call.actions[i].type = "edit_message"}

EndsWith(fields, tail) ==
    /\ Len(fields) >= Len(tail)
    /\ SubSeq(fields, Len(fields) - Len(tail) + 1, Len(fields)) = tail

\* the edit_message effects of the call are for message m of channel c, each
\* directly followed by a clear_reactions for the same channel and message, and
\* their embed has no 'Actions' field and ends with the fields of tail
EditsWellFormed(call, c, m, tail) ==
    \A i \in Edits(call) :
        /\ call.actions[i].channel_id = c /\ call.actions[i].message_id = m
        /\ i + 1 <= Len(call.actions)
        /\ call.actions[i + 1].type = "clear_reactions"
        /\ call.actions[i + 1].channel_id = c /\ call.actions[i + 1].message_id = m
        /\ "Actions" \notin Range(call.actions[i].embed.fields)
        /\ EndsWith(call.actions[i].embed.fields, tail)

\* a reject was given a reason: by reaction always, by command when words
\* follow the mention
ReasonGiven(call) == call.op = "reaction" \/ Len(call.event.args) > 1

\* the statement of C30 as written: the embed of a reject ends with Status
C30_AsWritten ==
    [][ (IsApprove(last') \/ IsReject(last')) =>
          LET reviewed == {i \in DOMAIN apps :
                              /\ apps[i].status = "PENDING"
                              /\ (i \notin DOMAIN apps' \/ apps'[i].status = "REJECTED")}
              stored == IF reviewed = {} THEN NULL
                        ELSE apps[CHOOSE i \in reviewed : TRUE].message_id
              m == IF last'.event.message_id # NULL THEN last'.event.message_id ELSE stored
              c == gs[last'.event.guild_id].bounce_channel_id
          IN /\ Cardinality(Edits(last')) = IF m # NULL /\ c # NULL THEN 1 ELSE 0
             /\ EditsWellFormed(last', c, m,
                    IF IsApprove(last') THEN <<"Status", "Roles">> ELSE <<"Status">>)
      ]_vars

\* C30: an approve or reject of one application returns an edit_message effect
\* exactly when a tracked message id is known (the event carries one, or one is
\* stored on the application) and the guild has a bounce channel; the effect
\* is for that message in the bounce channel and is directly followed by a
\* clear_reactions for the same channel and message; the edited embed has no
\* field named 'Actions' and ends with Status and Roles on approve, with Status
\* and Reason on a reject that was given a reason, and with Status on a reject
\* without one.
C30_EditWhenTracked ==
    [][ (IsApprove(last') \/ IsReject(last')) =>
          LET reviewed == {i \in DOMAIN apps :
                              /\ apps[i].status = "PENDING"
                              /\ (i \notin DOMAIN apps' \/ apps'[i].status = "REJECTED")}
              stored == IF reviewed = {} THEN NULL
                        ELSE apps[CHOOSE i \in reviewed : TRUE].message_id
              m == IF last'.event.message_id # NULL THEN last'.event.message_id ELSE stored
              c == gs[last'.event.guild_id].bounce_channel_id
          IN /\ Cardinality(Edits(last')) = IF m # NULL /\ c # NULL THEN 1 ELSE 0
             /\ EditsWellFormed(last', c, m,
                    IF IsApprove(last') THEN <<"Status", "Roles">>
                    ELSE IF ReasonGiven(last') THEN <<"Status", "Reason">>
                    ELSE <<"Status">>)
      ]_vars

\* a reject command with a reason, for an application whose message id had
\* been stored, edited that message: the embed ends with Status, Reason and
\* the reactions are cleared next
C30_Witness ==
    /\ RejectConfirmed(last) /\ Len(last.event.args) > 1
    /\ last.event.message_id = NULL
    /\ \E i \in Edits(last) :
          /\ last.actions[i].message_id \in {MessageOf(id) : id \in DOMAIN apps}
          /\ last.actions[i].embed.fields = <<"Status", "Reason">>
          /\ last.actions[i + 1].type = "clear_reactions"


-----------------------------------------------------------------------------
(* C31: the executor's cleanup of a channel *)

BotUser == "bot"

\* a message of a channel as the executor reads it: its id, its author, whether
\* the title of its first embed contains 'Application #', and that embed's color
Message(id, author, application_title, color) ==
    [id |-> id, author |-> author, application_title |-> application_title, color |-> color]

\* the tracked embed of application 1; the tracked embed of application 2 whose
\* title was translated on the way out; two plain messages of the bot; a
\* message of a member
Msg11 == Message(MessageOf(1), BotUser, TRUE, ColorOrange)
Msg12 == Message(MessageOf(2), BotUser, FALSE, ColorOrange)
Msg20 == Message(20, BotUser, FALSE, NULL)
Msg22 == Message(22, BotUser, FALSE, NULL)
Msg21 == Message(21, "member", FALSE, NULL)

\* channel.history(), newest first
Histories ==
    { <<Msg11, Msg12, Msg20, Msg21>>, <<Msg20, Msg22, Msg12, Msg11>>,
      <<Msg21, Msg12, Msg11, Msg20>>, <<Msg12, Msg20>>, <<Msg21, Msg20, Msg22, Msg12>>,
      <<Msg11>>, <<Msg22, Msg21, Msg11, Msg12>> }

\* the scan that skips no message for being the tracked message of a PENDING
\* application
CleanupScanByEmbed(msgs, protected, count, failing, deleted) ==
    LET RECURSIVE Scan(_, _)
        Scan(rest, done) ==
            IF rest = <<>> THEN done
            ELSE LET msg == Head(rest)
                 IN IF msg.author # BotUser THEN Scan(Tail(rest), done)
                    ELSE IF msg.application_title /\ msg.color = ColorOrange
                         THEN Scan(Tail(rest), done)
                    ELSE IF msg.id \in failing THEN Scan(Tail(rest), done)
                    ELSE IF Len(done) + 1 >= count THEN Append(done, msg.id)
                    ELSE Scan(Tail(rest), Append(done, msg.id))
    IN Scan(msgs, deleted)

RECURSIVE CleanupScan(_, _, _, _, _)
\* the loop over the history: messages of others, protected ids and orange
\* 'Application #' embeds are skipped; a delete that raises is not counted;
\* the loop ends once count messages are deleted
CleanupScan(msgs, protected, count, failing, deleted) ==
    IF msgs = <<>> THEN deleted
    ELSE LET msg == Head(msgs)
         IN IF msg.author # BotUser
            THEN CleanupScan(Tail(msgs), protected, count, failing, deleted)
            ELSE IF msg.id \in protected
            THEN CleanupScan(Tail(msgs), protected, count, failing, deleted)
            ELSE IF msg.application_title /\ msg.color = ColorOrange
            THEN CleanupScan(Tail(msgs), protected, count, failing, deleted)
            ELSE IF msg.id \in failing
            THEN CleanupScan(Tail(msgs), protected, count, failing, deleted)
            ELSE IF Len(deleted) + 1 >= count THEN Append(deleted, msg.id)
            ELSE CleanupScan(Tail(msgs), protected, count, failing, Append(deleted, msg.id))

\* _execute_one for a cleanup_channel effect: the ids deleted, in order
execute_cleanup(action, history, failing) ==
    LET protected == {apps[i].message_id :
                        i \in {j \in DOMAIN apps : /\ apps[j].guild = action.guild_id
                                                   /\ apps[j].status = "PENDING"
                                                   /\ apps[j].message_id # NULL}}
        limit == action.count * 3
        seen == SubSeq(history, 1, IF Len(history) < limit THEN Len(history) ELSE limit)
    IN CleanupScan(seen, protected, action.count, failing, <<>>)

\* the executor runs a cleanup_channel effect on a channel with some history;
\* deleting the messages of failing raises
ExecuteCleanup ==
    \E g \in GuildIds, count \in {1, 2}, history \in Histories, failing \in {{}, {20}} :
        LET action == [Effect("cleanup_channel") EXCEPT
                            !.channel_id = 8, !.count = count, !.guild_id = g]
        IN /\ last' = [op |-> "execute",
                       event |-> [guild_id |-> g, action |-> action, history |-> history,
                                  failing |-> failing],
                       actions |-> <<>>, raised |-> FALSE,
                       deleted |-> execute_cleanup(action, history, failing)]
           /\ UNCHANGED <<gs, roles, channels, rules, apps, nextId, autos, tokens, inflight>>

NextCleanup ==
    \/ MemberJoin
    \/ TrackMessage
    \/ MemberRemove
    \/ ExecuteCleanup

SpecCleanup == Init /\ [][NextCleanup]_vars

\* the message of application id is tracked for a PENDING application of guild g
TrackedPending(g, id) ==
    \E i \in DOMAIN apps :
        apps[i].guild = g /\ apps[i].status = "PENDING" /\ apps[i].message_id = id

\* C31: executing a cleanup_channel effect deletes only messages of the
\* channel that the bot wrote, that are not the tracked message of an
\* application PENDING in the effect's guild and that are not an orange
\* 'Application #' embed; it deletes no message twice and at most count.
C31_CleanupSparesPending ==
    last.op = "execute" =>
        /\ Len(last.deleted) <= last.event.action.count
        /\ \A i, j \in 1..Len(last.deleted) : last.deleted[i] = last.deleted[j] => i = j
        /\ \A i \in 1..Len(last.deleted) :
              \E k \in 1..Len(last.event.history) :
                  LET msg == last.event.history[k]
                  IN /\ msg.id = last.deleted[i]
                     /\ msg.author = "bot"
                     /\ ~TrackedPending(last.event.guild_id, msg.id)
                     /\ ~(msg.application_title /\ msg.color = 16753920)

\* a cleanup of count 1 met the tracked message of PENDING application 2 (its
\* title no longer says 'Application #') before a plain message of the bot:
\* it deleted the plain message only
C31_Witness ==
    /\ last.op = "execute" /\ last.event.action.count = 1
    /\ last.event.history = <<Msg12, Msg20>>
    /\ TrackedPending(last.event.guild_id, 12)
    /\ last.deleted = <<20>>


-----------------------------------------------------------------------------
(* C32: channel references and SEND_MESSAGE *)

\* the enabled SEND_MESSAGE actions the call runs, each with its automation
SentBy(call) ==
    UNION { {<<a.name, x>> : x \in {y \in a.actions : y.enabled /\ y.action_type = "SEND_MESSAGE"}}
                : a \in Selected(call) }

\* the channel the claim says a reference stands for (no 'channel' key: bounce)
Referred(g, ref) ==
    IF ref.sym \in {"bounce", "absent"} THEN gs[g].bounce_channel_id
    ELSE IF ref.sym = "pending" THEN gs[g].pending_channel_id
    ELSE IF ref.sym = "id" THEN ref.id
    ELSE NULL

\* the content an action is configured with: its template, else its text
Configured(x) ==
    IF x.config.template # "" THEN [tpl |-> x.config.template, message |-> ""]
    ELSE [tpl |-> "", message |-> x.config.content]

\* the send_message effects of the call to channel ch with this content
Sent(call, ch, content) ==
    {i \in 1..Len(call.actions) :
        /\ call.actions[i].type = "send_message"
        /\ call.actions[i].channel_id = ch /\ call.actions[i].content = content}

-----------------------------------------------------------------------------
(* C33: PENDING applications per member *)

\* C33: in every reachable state there is at most one PENDING application per
\* (guild, user), whatever joins, leaves, reactions, approvals, rejections,
\* bulk approvals and reloads have run.
C33_OnePendingPerUser ==
    \A g \in GuildIds, u \in UserIds : Cardinality(PendingOf(apps, g, u)) <= 1


-----------------------------------------------------------------------------
(* C34: rows deleted by approve *)

\* C34: an application row that approve has deleted never reappears: the only
\* id a step adds to the table is a fresh one (never an id handed out before),
\* whatever reject or form submission was under way when the approve ran.
C34_DeletedRowsStayDeleted ==
    [][\A id \in DOMAIN apps' : id \in DOMAIN apps \/ id >= nextId]_vars


-----------------------------------------------------------------------------
(* C35: one outcome per application *)

\* the effects a worker has returned and the bot has not executed yet
ReturnedBy(w) ==
    IF inflight[w] # <<>> /\ inflight[w][1].phase = "returned"
    THEN inflight[w][1].actions ELSE <<>>

ApprovalEffect(e) ==
    e.type = "add_role" \/ (e.type = "send_dm" /\ e.content.tpl = "APPROVE_DM")

RejectionEffect(e) ==
    \/ e.type = "send_dm" /\ e.content.tpl = "REJECT_DM"
    \/ e.type = "send_message" /\ e.content.tpl = "REJECT_PENDING"

\* C35: for one application id the engine never returns both approval effects
\* (add_role, the approval DM) and rejection effects (the rejection DM, the
\* notice in the pending channel): no two handlers hold, for the same
\* application, the one an approval and the other a rejection.
C35_ApproveXorReject ==
    \A w1, w2 \in Workers :
        ( /\ ReturnedBy(w1) # <<>> /\ ReturnedBy(w2) # <<>>
          /\ inflight[w1][1].application.id = inflight[w2][1].application.id )
        => ~( /\ \E i \in 1..Len(ReturnedBy(w1)) : ApprovalEffect(ReturnedBy(w1)[i])
              /\ \E j \in 1..Len(ReturnedBy(w2)) : RejectionEffect(ReturnedBy(w2)[j]) )


-----------------------------------------------------------------------------
(* C36: reload after an approval *)

\* the users the call sent the approval DM to
ApprovedBy(call) ==
    {call.actions[i].user_id :
        i \in {j \in 1..Len(call.actions) :
                /\ call.actions[j].type = "send_dm"
                /\ call.actions[j].content.tpl = "APPROVE_DM"}}

\* C36: a member whose application has been approved is not put back into the
\* approval queue by a reload: the reload that follows the approval (no join
\* in between) creates no PENDING application for that member.
C36_ReloadKeepsApproved ==
    [][ ( /\ last'.op = "reload" /\ last.op \in {"approve", "reaction"}
          /\ last.event.guild_id = last'.event.guild_id )
        => \A u \in ApprovedBy(last) :
              PendingOf(apps', last'.event.guild_id, u) \subseteq
                  PendingOf(apps, last'.event.guild_id, u)
      ]_vars


-----------------------------------------------------------------------------
(* C37: form answers and the dropdown's options *)

\* the options the guild's answered dropdowns of this source type offer
Offered(g, responses, source) ==
    UNION {f.options : f \in {x \in FieldsOf(g) :
                /\ x.has_dropdown /\ x.source_type = source
                /\ x.id \in DOMAIN responses /\ responses[x.id] # <<>>}}

\* C37: an approve by reaction gives the applicant no role other than those of
\* the resolved invite rule and the options of the ROLES dropdowns they
\* answered, and opens no channel other than the options of the CHANNELS
\* dropdowns they answered, whatever values the applicant posted.
C37_AnswersWithinOptions ==
    [][\A id \in DOMAIN apps :
          ( /\ ReactionOn(last', id, "approve_mark") /\ apps[id].status = "PENDING"
            /\ last'.event.guild_id \in DOMAIN gs )
          => LET g == apps[id].guild
                 answers == apps[id].responses
             IN \A i \in 1..Len(last'.actions) :
                   LET e == last'.actions[i]
                   IN /\ e.type = "add_role" =>
                            e.role_id \in ResolvedRoles(g, apps[id].invite_code)
                                            \cup Offered(g, answers, "ROLES")
                      /\ e.type = "set_permissions" =>
                            e.channel_id \in Offered(g, answers, "CHANNELS")
      ]_vars


-----------------------------------------------------------------------------
(* C38: form responses are written once *)

-----------------------------------------------------------------------------
(* C39: a failing addrule leaves the invite rules alone *)

\* the names listed in the second argument that no role of the guild has
NotFound(event) ==
    LET names == SplitNames(event.args[2])
    IN {i \in 1..Len(names) : GuildRoleNamed(event.guild_roles, names[i]) = {}}

\* addrule sent by an administrator of a configured guild with fewer than two
\* arguments, or with a role name that is not found
FailingAddrule(event) ==
    /\ event.command = "addrule"
    /\ event.guild_id \in DOMAIN gs
    /\ IsAdmin(event.guild_id, event)
    /\ Len(event.args) < 2 \/ NotFound(event) # {}

\* C39: an addrule command with fewer than two arguments, or with a listed
\* role name that is not among the guild's roles, returns exactly one error
\* reply (the usage text, or the role that was not found) and leaves every
\* invite rule as it was: none is created and no role set changes.
C39_FailedAddruleKeepsRules ==
    [][ FailingAddrule(last'.event) =>
            /\ rules' = rules
            /\ ~last'.raised
            /\ last'.actions =
                    << CommandError(IF Len(last'.event.args) < 2 THEN "Usage"
                                    ELSE "Role not found") >>
      ]_vars

\* addrule for the existing rule 'abc' has just failed on its second role
\* name, after the first one was found: the rule still grants roles 3 and 4
C39_Witness ==
    /\ last.op = "addrule" /\ FailingAddrule(last.event)
    /\ last.event.args = <<"abc", "members,Nope">>
    /\ last.actions = <<CommandError("Role not found")>>
    /\ Rule(1, "abc", {3, 4}) \in rules

====
